---- MODULE Spec2Model ----
(***************************************************************************)
(* Resume-analysis backend: the resume controller (upload, get, analyze,   *)
(* delete), the GridFS resume store, the ResumeAnalysis collection and the *)
(* GLM analysis client with its response validation and retry loop.        *)
(*                                                                         *)
(* Spec    : the HTTP handlers of the resume controller, one step per      *)
(*           awaited storage or remote operation, interleaved freely.     *)
(* SpecGLM : one call of GLMService.analyzeResume in isolation, with the   *)
(*           outcome of every remote attempt recorded.                     *)
(* SpecStore: the methods of ResumeService called one after another on the *)
(*           GridFS bucket.                                                *)
(* SpecPipeline: the pipeline controller, its trigger requests and the     *)
(*           events of the child processes it spawns.                      *)
(* SpecJobs: one GET /api/jobs request, on the filtered listing or on the *)
(*           raw one, with its query parameters as the client sent them.   *)
(* SpecAuth: the auth service and controller on the users collection       *)
(*           (register, verify, resend, login) and the authenticate        *)
(*           middleware in front of the protected routes.                  *)
(***************************************************************************)
EXTENDS Integers, Sequences, FiniteSets, TLC

VARIABLES
    client,      \* GLMService.client: TRUE when constructed with an API key
    files,       \* GridFS bucket 'resumes': id -> stored file
    nextId,      \* number of ObjectIds the bucket has allocated
    analyses,    \* collection resume_analyses, in insertion order
    profile,     \* User.profile.resumeId of every user
    reqs,        \* the HTTP requests in flight, one per connection slot
    started,     \* number of requests accepted so far
    made,        \* per document: how its latest record came to be written
    glmCall,     \* SpecGLM: the analyzeResume call under observation
    glmText,     \* SpecGLM: its argument
    glmTrace,    \* SpecGLM: the outcome of every remote attempt so far
    svc,         \* SpecStore: the latest call of a ResumeService method
    status,      \* pipeline controller: the in-memory PipelineStatus
    children,    \* the child processes spawned for the pipeline, in order
    now,         \* the clock read by new Date()
    trigger,     \* the latest POST /api/pipeline/trigger and its response
    listing,     \* SpecJobs: the GET /api/jobs request under observation
    accounts,    \* collection users, in insertion order
    auth,        \* SpecAuth: the auth requests received and how they were answered
    time         \* SpecAuth: the clock read by Date.now()

vars == <<client, files, nextId, analyses, profile, reqs, started, made,
          glmCall, glmText, glmTrace, svc, status, children, now, trigger,
          listing, accounts, auth, time>>

ctlVars == <<files, nextId, analyses, profile, reqs, started, made>>
glmVars == <<glmCall, glmText, glmTrace>>
svcVars == <<svc>>
pipeVars == <<status, children, now, trigger>>
jobVars == <<listing>>
authVars == <<accounts, auth, time>>

-----------------------------------------------------------------------------
(* JSON values, as JSON.parse produces them.  Numbers carry their decimal   *)
(* text; an object is its list of <<key, value>> pairs in Object.entries    *)
(* order.                                                                   *)

JStr(s) == [t |-> "str", v |-> s]
JNum(s) == [t |-> "num", v |-> s]
JArr(s) == [t |-> "arr", v |-> s]
JObj(s) == [t |-> "obj", v |-> s]
JNull == [t |-> "null", v |-> ""]
JUndef == [t |-> "undef", v |-> ""]

\* JavaScript truthiness (the `!x` tests of validateResponse)
Truthy(j) ==
    CASE j.t \in {"undef", "null"} -> FALSE
      [] j.t = "str" -> j.v # ""
      [] j.t = "num" -> j.v # "0"
      [] OTHER -> TRUE

\* typeof j === 'object'
TypeofObject(j) == j.t \in {"obj", "arr", "null"}

\* typeof j === 'string'
TypeofString(j) == j.t = "str"

\* obj[key]
Get(obj, key) ==
    IF obj.t = "obj" /\ \E i \in 1..Len(obj.v) : obj.v[i][1] = key
    THEN obj.v[CHOOSE i \in 1..Len(obj.v) : obj.v[i][1] = key][2]
    ELSE JUndef

\* obj[key] = val
Put(obj, key, val) ==
    IF \E i \in 1..Len(obj.v) : obj.v[i][1] = key
    THEN JObj([i \in 1..Len(obj.v) |->
                 IF obj.v[i][1] = key THEN <<key, val>> ELSE obj.v[i]])
    ELSE JObj(Append(obj.v, <<key, val>>))

-----------------------------------------------------------------------------
(* Errors and results.                                                      *)

\* an error object: its code, the words of its message, its retryable field
\* ("undef" when the object has none)
MkErr(c, m, r) == [code |-> c, msg |-> m, retryable |-> r]
NoErr == MkErr("", <<>>, "undef")
NoMessage == <<>>

Ok(v) == [ok |-> TRUE, value |-> v, err |-> NoErr]
Fail(e) == [ok |-> FALSE, value |-> JUndef, err |-> e]

\* String.prototype.includes on the words of a message
Includes(m, w) == \E i \in 1..Len(m) : m[i] = w

-----------------------------------------------------------------------------
(* GLMService.validateResponse                                              *)

\* A raw response text is a list of segments: commentary words, brace
\* characters, and serialised JSON objects.
Word(w) == [c |-> "word", j |-> JUndef, w |-> w]
Open == [c |-> "{", j |-> JUndef, w |-> ""]
Close == [c |-> "}", j |-> JUndef, w |-> ""]
Json(o) == [c |-> "json", j |-> o, w |-> ""]

HasOpen(s) == s.c \in {"{", "json"}
HasClose(s) == s.c \in {"}", "json"}

\* content.match(/\{[\s\S]*\}/): from the first '{' to the last '}'
JsonMatch(content) ==
    LET opens == {i \in 1..Len(content) : HasOpen(content[i])}
        closes == {i \in 1..Len(content) : HasClose(content[i])}
    IN  IF opens = {} \/ closes = {} THEN <<>>
        ELSE LET i == CHOOSE x \in opens : \A y \in opens : x <= y
                 j == CHOOSE x \in closes : \A y \in closes : x >= y
             IN  IF i <= j THEN SubSeq(content, i, j) ELSE <<>>

\* JSON.parse of a matched span
JsonParse(span) ==
    IF Len(span) = 1 /\ span[1].c = "json" THEN Ok(span[1].j)
    ELSE IF Len(span) = 2 /\ span[1].c = "{" /\ span[2].c = "}" THEN Ok(JObj(<<>>))
    ELSE Fail(MkErr("SyntaxError", <<"Unexpected", "token">>, "undef"))

defaultJobKeywords ==
    JArr(<<JStr("Software Developer"), JStr("Software Engineer"),
           JStr("Full Stack Developer")>>)

InvalidResponse == MkErr("INVALID_RESPONSE", <<"Failed", "to", "parse">>, "true")

\* validateResponse without the test of `skills`
validateResponseNoSkillsTest(content) ==
    LET jsonMatch == JsonMatch(content)
        parsed == JsonParse(jsonMatch)
    IN  IF jsonMatch = <<>> THEN Fail(InvalidResponse)
        ELSE IF ~parsed.ok THEN Fail(InvalidResponse)
        ELSE IF ~Truthy(Get(parsed.value, "summary"))
                \/ ~TypeofString(Get(parsed.value, "summary"))
             THEN Fail(InvalidResponse)
        ELSE IF Get(parsed.value, "jobKeywords").t # "arr"
                \/ Len(Get(parsed.value, "jobKeywords").v) < 3
             THEN Ok(Put(parsed.value, "jobKeywords", defaultJobKeywords))
        ELSE Ok(parsed.value)

\* validateResponse asking for 2 keywords where it asks for 3
validateResponseTwoKeywords(content) ==
    LET jsonMatch == JsonMatch(content)
        parsed == JsonParse(jsonMatch)
    IN  IF jsonMatch = <<>> THEN Fail(InvalidResponse)
        ELSE IF ~parsed.ok THEN Fail(InvalidResponse)
        ELSE IF ~Truthy(Get(parsed.value, "skills"))
                \/ ~TypeofObject(Get(parsed.value, "skills"))
             THEN Fail(InvalidResponse)
        ELSE IF ~Truthy(Get(parsed.value, "summary"))
                \/ ~TypeofString(Get(parsed.value, "summary"))
             THEN Fail(InvalidResponse)
        ELSE IF Get(parsed.value, "jobKeywords").t # "arr"
                \/ Len(Get(parsed.value, "jobKeywords").v) < 2
             THEN Ok(Put(parsed.value, "jobKeywords", defaultJobKeywords))
        ELSE Ok(parsed.value)

validateResponse(content) ==
    LET jsonMatch == JsonMatch(content)
        parsed == JsonParse(jsonMatch)
    IN  IF jsonMatch = <<>> THEN Fail(InvalidResponse)
        ELSE IF ~parsed.ok THEN Fail(InvalidResponse)
        ELSE IF ~Truthy(Get(parsed.value, "skills"))
                \/ ~TypeofObject(Get(parsed.value, "skills"))
             THEN Fail(InvalidResponse)
        ELSE IF ~Truthy(Get(parsed.value, "summary"))
                \/ ~TypeofString(Get(parsed.value, "summary"))
             THEN Fail(InvalidResponse)
        ELSE IF Get(parsed.value, "jobKeywords").t # "arr"
                \/ Len(Get(parsed.value, "jobKeywords").v) < 3
             THEN Ok(Put(parsed.value, "jobKeywords", defaultJobKeywords))
        ELSE Ok(parsed.value)

-----------------------------------------------------------------------------
(* GLMService.analyzeResume and retryWithBackoff                            *)

maxRetries == 3
baseDelay == 1000
MinResumeChars == 50

\* Math.pow(2, n)
RECURSIVE Pow2(_)
Pow2(n) == IF n <= 0 THEN 1 ELSE 2 * Pow2(n - 1)

\* One attempt of client.createCompletions: it throws, or resolves with
\* choices whose first message has `content` (<<>>: no content), or resolves
\* with a stream.
Throws(e) == [kind |-> "throw", err |-> e, content |-> <<>>]
Choices(c) == [kind |-> "choices", err |-> NoErr, content |-> c]
Stream == [kind |-> "stream", err |-> NoErr, content |-> <<>>]

\* the classification of the catch clause of the attempt closure
IsRetryable(error) ==
    IF error.code = "ETIMEDOUT" \/ error.code = "ECONNRESET" THEN "true"
    ELSE IF error.msg = NoMessage THEN "undef"
    ELSE IF Includes(error.msg, "timeout")
            \/ Includes(error.msg, "rate limit")
            \/ Includes(error.msg, "network")
         THEN "true"
    ELSE "false"

\* catch (error) of the attempt closure
AttemptCatch(error) ==
    IF error.retryable # "undef" THEN Fail(error)
    ELSE Fail(MkErr("ANALYSIS_FAILED",
                    IF error.msg = NoMessage THEN <<"GLM", "API", "call", "failed">>
                    ELSE error.msg,
                    IsRetryable(error)))

\* the closure handed to retryWithBackoff, on one outcome of the remote call
Attempt(outcome) ==
    IF outcome.kind = "throw" THEN AttemptCatch(outcome.err)
    ELSE IF outcome.kind = "stream"
         THEN AttemptCatch(MkErr("", <<"Streaming", "response", "not", "supported">>,
                                 "undef"))
    ELSE IF outcome.content = <<>>
         THEN AttemptCatch(MkErr("", <<"Empty", "response", "from", "GLM", "API">>,
                                 "undef"))
    ELSE LET r == validateResponse(outcome.content)
         IN  IF r.ok THEN r ELSE AttemptCatch(r.err)

\* retryWithBackoff's catch with `>` for `>=`
GivesUpLate(attempt, error) == attempt > maxRetries \/ error.retryable # "true"

\* retryWithBackoff's catch without the test of `retryable`
GivesUpOnBudgetOnly(attempt, error) == attempt >= maxRetries

\* retryWithBackoff's catch: TRUE when the error is thrown to the caller
GivesUp(attempt, error) == attempt >= maxRetries \/ error.retryable # "true"

\* retryWithBackoff doubling the delay once too often
BackoffFromTwo(attempt) == baseDelay * Pow2(attempt)

\* the delay slept before the next attempt
Backoff(attempt) == baseDelay * Pow2(attempt - 1)

\* A resume text is known by its length and by how many of its characters
\* are leading or trailing whitespace.
TrimLength(text) == text.len - text.ws

\* The state of one analyzeResume call.
IdleCall ==
    [st |-> "idle", attempt |-> 0, calls |-> 0, waited |-> <<>>,
     value |-> JUndef, err |-> NoErr]

\* analyzeResume measuring the text without trim()
AnalyzeStartUntrimmed(cl, text) ==
    IF ~cl
    THEN [IdleCall EXCEPT !.st = "err",
            !.err = MkErr("API_NOT_CONFIGURED", <<"GLM", "API", "not", "configured">>,
                          "false")]
    ELSE IF text.len = 0 \/ text.len < MinResumeChars
    THEN [IdleCall EXCEPT !.st = "err",
            !.err = MkErr("INVALID_INPUT", <<"Resume", "text", "too", "short">>,
                          "false")]
    ELSE [IdleCall EXCEPT !.st = "running", !.attempt = 1]

\* analyzeResume up to its first remote call
AnalyzeStart(cl, text) ==
    IF ~cl
    THEN [IdleCall EXCEPT !.st = "err",
            !.err = MkErr("API_NOT_CONFIGURED", <<"GLM", "API", "not", "configured">>,
                          "false")]
    ELSE IF text.len = 0 \/ TrimLength(text) < MinResumeChars
    THEN [IdleCall EXCEPT !.st = "err",
            !.err = MkErr("INVALID_INPUT", <<"Resume", "text", "too", "short">>,
                          "false")]
    ELSE [IdleCall EXCEPT !.st = "running", !.attempt = 1]

\* one turn of retryWithBackoff: the remote call answers with `outcome`
AnalyzeAttempt(call, outcome) ==
    LET r == Attempt(outcome)
    IN  IF r.ok
        THEN [call EXCEPT !.st = "ok", !.calls = @ + 1, !.value = r.value]
        ELSE IF GivesUp(call.attempt, r.err)
        THEN [call EXCEPT !.st = "err", !.calls = @ + 1, !.err = r.err]
        ELSE [call EXCEPT !.attempt = @ + 1, !.calls = @ + 1,
                          !.waited = Append(@, Backoff(call.attempt))]

-----------------------------------------------------------------------------
(* The answers of the remote model and the resume texts that are tried.     *)

\* the skills and the jobKeywords that the answers are made of
Part ==
    [Skills1 |-> JObj(<< <<"Programming Languages", JArr(<<JStr("Go")>>)>> >>),
     Skills2 |->
        JObj(<< <<"Databases", JArr(<<JStr("MongoDB"), JStr("PostgreSQL")>>)>>,
                <<"Tools & Platforms", JArr(<<JStr("Git")>>)>> >>),
     Keywords1 |-> JArr(<<JStr("Only One")>>),
     Keywords2 |-> JArr(<<JStr("A"), JStr("B")>>),
     Keywords3 |-> JArr(<<JStr("A"), JStr("B"), JStr("C")>>),
     Keywords4 |-> JArr(<<JStr("Backend Developer"), JStr("B"), JStr("C"), JStr("D")>>)]

Analysis(sk, su, kw) == JObj(<< <<"skills", sk>>, <<"summary", su>>, <<"jobKeywords", kw>> >>)

\* the answers that the claims name
Sample ==
    [Good1 |-> Choices(<<Json(Analysis(Part.Skills1, JStr("summary one"), Part.Keywords3))>>),
     Good2 |->
        Choices(<<Word("Here"),
                  Json(Analysis(Part.Skills2, JStr("summary two"), Part.Keywords4)),
                  Word("End")>>),
     NoSkills |->
        Choices(<<Json(JObj(<< <<"summary", JStr("A summary")>>,
                               <<"jobKeywords", Part.Keywords1>> >>))>>),
     NoJson |-> Choices(<<Word("Not"), Word("valid"), Word("JSON")>>),
     TimedOut |-> Throws(MkErr("ETIMEDOUT", <<"timeout">>, "undef")),
     RateLimited |-> Throws(MkErr("", <<"rate limit", "exceeded">>, "undef"))]

\* an answer that is one JSON object and nothing else
Answer(sk, su, kw) == Choices(<<Json(Analysis(sk, su, kw))>>)

\* the answers tried by the handlers: two well-formed ones, one whose
\* category holds a bare string and whose keywords are numbers, one whose
\* category has an empty name, one without skills, a timeout, and a
\* non-retryable API error
HandlerOutcomes ==
    {Sample.Good1, Sample.Good2,
     Choices(<<Json(Analysis(JObj(<< <<"Programming Languages", JStr("Go")>> >>),
                             JStr("summary three"),
                             JArr(<<JNum("1"), JNum("2"), JNum("3")>>)))>>),
     Choices(<<Json(Analysis(JObj(<< <<"", JArr(<<JStr("Go")>>)>> >>),
                             JStr("summary five"), Part.Keywords3))>>),
     Sample.NoSkills, Sample.TimedOut,
     Throws(MkErr("", <<"Unauthorized">>, "undef"))}

\* the answers tried on the service alone: those above, too few keywords,
\* no JSON, no content, a stream, the retryable classes, an error without
\* a message, and the rejection the service's own test feeds it
RemoteOutcomes ==
    HandlerOutcomes \cup
    {Choices(<<Json(Analysis(Part.Skills1, JStr("summary four"), Part.Keywords1))>>),
     Sample.NoJson, Choices(<<>>), Stream,
     Throws(MkErr("ECONNRESET", <<"socket", "hang", "up">>, "undef")),
     Sample.RateLimited,
     Throws(MkErr("", <<"network", "unreachable">>, "undef")),
     Throws(MkErr("", NoMessage, "undef")),
     Throws(MkErr("ANALYSIS_FAILED", <<"timeout">>, "true"))}
    \cup
    \* answers whose `skills` is no mapping: a list, a string, a number, null
    {Answer(JArr(<<JStr("Go"), JStr("SQL")>>), JStr("summary six"), Part.Keywords3),
     Answer(JStr("Go"), JStr("summary six"), Part.Keywords3),
     Answer(JNum("5"), JStr("summary six"), Part.Keywords3),
     Answer(JNull, JStr("summary six"), Part.Keywords3)}
    \cup
    \* answers whose `summary` is a number, is missing, or is empty
    {Answer(Part.Skills1, JNum("7"), Part.Keywords3),
     Choices(<<Json(JObj(<< <<"skills", Part.Skills1>>, <<"jobKeywords", Part.Keywords3>> >>))>>),
     Answer(Part.Skills1, JStr(""), Part.Keywords3)}
    \cup
    \* answers whose `jobKeywords` is missing, is a string, or has 0 or 2 entries
    {Choices(<<Json(JObj(<< <<"skills", Part.Skills2>>,
                            <<"summary", JStr("summary seven")>> >>))>>),
     Answer(Part.Skills1, JStr("summary seven"), JStr("Developer")),
     Answer(Part.Skills1, JStr("summary seven"), JArr(<<>>)),
     Answer(Part.Skills1, JStr("summary seven"), Part.Keywords2)}
    \cup
    \* answers whose commentary holds brace characters of its own
    {Choices(<<Word("See"), Open, Word("note"), Close,
               Json(Analysis(Part.Skills1, JStr("summary eight"), Part.Keywords3))>>),
     Choices(<<Json(Analysis(Part.Skills1, JStr("summary eight"), Part.Keywords3)),
               Word("where"), Open, Word("x"), Close, Word("holds")>>),
     Choices(<<Word("Result"),
               Json(Analysis(Part.Skills2, JStr("summary eight"), Part.Keywords4)),
               Word("done"), Close>>),
     Choices(<<Word("empty"), Open, Close>>)}

Text(n, w) == [len |-> n, ws |-> w]
NoText == Text(0, 0)
Texts == {Text(0, 0), Text(4, 4), Text(49, 0), Text(50, 0), Text(51, 2), Text(60, 3)}

-----------------------------------------------------------------------------
(* SpecGLM: one analyzeResume call on the service alone.                    *)

GLMInvoke ==
    /\ glmCall.st = "idle"
    /\ \E text \in Texts :
         /\ glmText' = text
         /\ glmCall' = AnalyzeStart(client, text)
    /\ UNCHANGED <<client, glmTrace, ctlVars, svcVars, pipeVars, jobVars, authVars>>

GLMRemote ==
    /\ glmCall.st = "running"
    /\ \E outcome \in RemoteOutcomes :
         /\ glmCall' = AnalyzeAttempt(glmCall, outcome)
         /\ glmTrace' = Append(glmTrace, outcome)
    /\ UNCHANGED <<client, glmText, ctlVars, svcVars, pipeVars, jobVars, authVars>>

-----------------------------------------------------------------------------
(* ResumeService: the GridFS bucket 'resumes'.                              *)

MAX_FILE_SIZE == 5 * 1024 * 1024
ALLOWED_MIME_TYPES ==
    {"application/pdf", "application/msword",
     "application/vnd.openxmlformats-officedocument.wordprocessingml.document",
     "text/plain"}

MaxUploads == 1
MaxRequests == 3

Users == {"u1", "u2"}
Procs == {"p1", "p2"}
Ids == 1..MaxUploads

\* The payload of a file is known by the text it holds and by whether the
\* PDF / DOCX parser accepts it.
Body(text, parses) == [text |-> text, parses |-> parses]

\* a multipart file as multer hands it over
Upload(name, mime, size, body) ==
    [present |-> TRUE, originalname |-> name, mimetype |-> mime, size |-> size,
     body |-> body]
NoUpload == [present |-> FALSE, originalname |-> "", mimetype |-> "", size |-> 0,
             body |-> Body(NoText, FALSE)]

\* a file of the bucket with its metadata
Stored(name, user, mime, size, body) ==
    [present |-> TRUE, fileName |-> name, userId |-> user, mimeType |-> mime,
     size |-> size, body |-> body]
NoFile == [present |-> FALSE, fileName |-> "", userId |-> "", mimeType |-> "",
           size |-> 0, body |-> Body(NoText, FALSE)]

\* validateFile with `>=` for `>` in the size test
validateFileBelowLimit(file) ==
    IF file.size >= MAX_FILE_SIZE
    THEN MkErr("", <<"File", "size", "exceeds", "5MB", "limit">>, "undef")
    ELSE IF file.mimetype \notin ALLOWED_MIME_TYPES
    THEN MkErr("", <<"Invalid", "file", "type">>, "undef")
    ELSE NoErr

\* validateFile without the test of the MIME type
validateFileAnyType(file) ==
    IF file.size > MAX_FILE_SIZE
    THEN MkErr("", <<"File", "size", "exceeds", "5MB", "limit">>, "undef")
    ELSE NoErr

\* validateFile: the error it throws, or NoErr
validateFile(file) ==
    IF file.size > MAX_FILE_SIZE
    THEN MkErr("", <<"File", "size", "exceeds", "5MB", "limit">>, "undef")
    ELSE IF file.mimetype \notin ALLOWED_MIME_TYPES
    THEN MkErr("", <<"Invalid", "file", "type">>, "undef")
    ELSE NoErr

\* getResumeById: the metadata of the file, or NoFile (null)
getResumeById(bucket, id) == IF id \in DOMAIN bucket THEN bucket[id] ELSE NoFile

\* getResumeFile whose stream ends without an error for a file that is gone
getResumeFileNoError(bucket, id) ==
    IF id \in DOMAIN bucket /\ bucket[id].present
    THEN [ok |-> TRUE, body |-> bucket[id].body, err |-> NoErr]
    ELSE [ok |-> TRUE, body |-> Body(NoText, FALSE), err |-> NoErr]

\* getResumeFile: the download stream ends with the bytes or with an error
getResumeFile(bucket, id) ==
    IF id \in DOMAIN bucket /\ bucket[id].present
    THEN [ok |-> TRUE, body |-> bucket[id].body, err |-> NoErr]
    ELSE [ok |-> FALSE, body |-> Body(NoText, FALSE),
          err |-> MkErr("ENOENT", <<"FileNotFound">>, "undef")]

-----------------------------------------------------------------------------
(* GLMService.extractText                                                   *)

DocPrefix == 10000
MinDocChars == 100

Min(a, b) == IF a <= b THEN a ELSE b

ExtractionFailed == MkErr("EXTRACTION_FAILED", <<"Failed", "to", "extract">>, "false")

Extracted(text) == [ok |-> TRUE, text |-> text, err |-> NoErr]
NotExtracted(e) == [ok |-> FALSE, text |-> NoText, err |-> e]

\* extractTextFromDOC: the printable text of the first bytes of the file
extractTextFromDOC(body) ==
    LET text == Text(Min(body.text.len, DocPrefix), Min(body.text.ws, DocPrefix))
    IN  IF TrimLength(text) < MinDocChars THEN NotExtracted(ExtractionFailed)
        ELSE Extracted(text)

extractText(body, mimeType) ==
    CASE mimeType = "application/pdf" ->
           IF body.parses THEN Extracted(body.text) ELSE NotExtracted(ExtractionFailed)
      [] mimeType = "application/vnd.openxmlformats-officedocument.wordprocessingml.document" ->
           IF body.parses THEN Extracted(body.text) ELSE NotExtracted(ExtractionFailed)
      [] mimeType = "application/msword" -> extractTextFromDOC(body)
      [] mimeType = "text/plain" -> Extracted(body.text)
      [] OTHER ->
           NotExtracted(MkErr("UNSUPPORTED_TYPE", <<"Unsupported", "MIME", "type">>,
                              "false"))

-----------------------------------------------------------------------------
(* ResumeAnalysis: the mongoose model over collection resume_analyses.      *)

\* one element of the skills array: { category, items }
Skill(c, items) == [category |-> c, items |-> items]

\* a document of the collection
Record(user, id, skills, summary, keywords) ==
    [present |-> TRUE, userId |-> user, resumeId |-> id, skills |-> skills,
     summary |-> summary, jobKeywords |-> keywords]
NoRecord ==
    [present |-> FALSE, userId |-> "", resumeId |-> 0, skills |-> <<>>,
     summary |-> JUndef, jobKeywords |-> JUndef]

\* the cast of a value to the schema type String: strings stay, numbers
\* become their decimal text, null stays, objects and arrays do not cast
CanCastString(j) == j.t \in {"str", "num", "null", "undef"}
CastString(j) == IF j.t = "num" THEN JStr(j.v) ELSE j

\* the cast of a value to the schema type [String]: a value that is no
\* array is wrapped into one
AsArray(j) ==
    IF j.t = "arr" THEN j.v
    ELSE IF j.t \in {"undef", "null"} THEN <<>>
    ELSE <<j>>
CanCastStrings(j) == \A i \in 1..Len(AsArray(j)) : CanCastString(AsArray(j)[i])
CastStrings(j) == JArr([i \in 1..Len(AsArray(j)) |-> CastString(AsArray(j)[i])])

\* schema validation of a new document: casts succeed, required paths are set
ValidRecord(doc) ==
    /\ \A i \in 1..Len(doc.skills) :
         /\ doc.skills[i].category # ""
         /\ CanCastStrings(doc.skills[i].items)
    /\ CanCastString(doc.summary) /\ Truthy(doc.summary)
    /\ CanCastStrings(doc.jobKeywords)

\* the document as the schema stores it
CastRecord(doc) ==
    Record(doc.userId, doc.resumeId,
           [i \in 1..Len(doc.skills) |->
              Skill(doc.skills[i].category, CastStrings(doc.skills[i].items))],
           CastString(doc.summary), CastStrings(doc.jobKeywords))

\* the index without `unique: true`
PlainIndex(coll, doc) == TRUE

\* the unique index { userId: 1, resumeId: 1 }
UniqueIndex(coll, doc) ==
    \A i \in 1..Len(coll) :
        ~(coll[i].userId = doc.userId /\ coll[i].resumeId = doc.resumeId)

\* ResumeAnalysis.create: the collection afterwards, or the error thrown
Create(coll, doc) ==
    IF ~ValidRecord(doc)
    THEN [ok |-> FALSE, coll |-> coll,
          err |-> MkErr("", <<"ResumeAnalysis", "validation", "failed">>, "undef")]
    ELSE IF ~UniqueIndex(coll, doc)
    THEN [ok |-> FALSE, coll |-> coll,
          err |-> MkErr("11000", <<"E11000", "duplicate", "key", "error">>, "undef")]
    ELSE [ok |-> TRUE, coll |-> Append(coll, CastRecord(doc)), err |-> NoErr]

\* findOne with a filter no document matches
FindOneMiss(coll, id) == NoRecord

\* ResumeAnalysis.findOne({ resumeId }): the first match, or NoRecord (null)
FindOne(coll, id) ==
    IF \E i \in 1..Len(coll) : coll[i].resumeId = id
    THEN coll[CHOOSE i \in 1..Len(coll) :
                /\ coll[i].resumeId = id
                /\ \A j \in 1..(i - 1) : coll[j].resumeId # id]
    ELSE NoRecord

\* ResumeAnalysis.deleteOne({ resumeId }): the collection without the first match
DeleteOne(coll, id) ==
    IF \E i \in 1..Len(coll) : coll[i].resumeId = id
    THEN LET k == CHOOSE i \in 1..Len(coll) :
                    /\ coll[i].resumeId = id
                    /\ \A j \in 1..(i - 1) : coll[j].resumeId # id
         IN  SubSeq(coll, 1, k - 1) \o SubSeq(coll, k + 1, Len(coll))
    ELSE coll

-----------------------------------------------------------------------------
(* ResumeController: responses.                                             *)

\* the `data` of a response body
NoData ==
    [has |-> FALSE, skills |-> <<>>, summary |-> JUndef, jobKeywords |-> JUndef,
     resumeId |-> 0, fileName |-> "", hasAnalysis |-> FALSE]
AnalysisData(skills, summary, keywords) ==
    [NoData EXCEPT !.has = TRUE, !.skills = skills, !.summary = summary,
                   !.jobKeywords = keywords]
ResumeData(id, name, analysis) ==
    IF analysis.present
    THEN [AnalysisData(analysis.skills, analysis.summary, analysis.jobKeywords)
            EXCEPT !.resumeId = id, !.fileName = name, !.hasAnalysis = TRUE]
    ELSE [NoData EXCEPT !.has = TRUE, !.resumeId = id, !.fileName = name]
UploadData(id, name) == [NoData EXCEPT !.has = TRUE, !.resumeId = id, !.fileName = name]

Resp(httpStatus, code, retryable, data) ==
    [status |-> httpStatus, code |-> code, retryable |-> retryable, data |-> data]
NoResp == Resp(0, "", FALSE, NoData)

NotFound == Resp(404, "NOT_FOUND", FALSE, NoData)
Forbidden == Resp(403, "FORBIDDEN", FALSE, NoData)

\* the catch clause of analyzeResume
AnalyzeCatch(error) ==
    LET isRetryable == IF error.code = "ANALYSIS_FAILED" THEN error.retryable ELSE "false"
    IN  Resp(IF isRetryable = "true" THEN 503 ELSE 500,
             IF error.code = "" THEN "ANALYSIS_FAILED" ELSE error.code,
             isRetryable = "true", NoData)

\* the catch clause of uploadResume
UploadCatch(error) ==
    Resp(500, "UPLOAD_FAILED",
         \/ (error.msg # NoMessage /\ Includes(error.msg, "timeout"))
         \/ (error.msg # NoMessage /\ Includes(error.msg, "network"))
         \/ error.retryable = "true",
         NoData)

\* the catch clauses of getResume and deleteResume
GetCatch(error) == Resp(500, "GET_FAILED", FALSE, NoData)
DeleteCatch(error) == Resp(500, "DELETE_FAILED", FALSE, NoData)

\* Object.entries(x): the index is the key of an array element
IndexKey(n) == <<"0", "1", "2", "3", "4", "5", "6", "7", "8", "9">>[n + 1]
ObjectEntries(j) ==
    IF j.t = "obj" THEN j.v
    ELSE IF j.t = "arr" THEN [i \in 1..Len(j.v) |-> <<IndexKey(i - 1), j.v[i]>>]
    ELSE <<>>

\* Object.entries(skills).map(([category, items]) => ({ category, items }))
SkillsArray(skills) ==
    [i \in 1..Len(ObjectEntries(skills)) |->
       Skill(ObjectEntries(skills)[i][1], ObjectEntries(skills)[i][2])]

-----------------------------------------------------------------------------
(* ResumeController: the requests.                                          *)

\* the files that are uploaded
Uploads ==
    {Upload("resume.txt", "text/plain", 63, Body(Text(60, 3), TRUE)),
     Upload("short.txt", "text/plain", 51, Body(Text(51, 2), TRUE)),
     Upload("scan.pdf", "application/pdf", 1024 * 1024, Body(NoText, FALSE)),
     Upload("big.pdf", "application/pdf", MAX_FILE_SIZE + 1, Body(Text(60, 3), TRUE)),
     Upload("photo.png", "image/png", 100, Body(NoText, FALSE)),
     NoUpload}

\* One request: the handler that serves it, the await it is suspended at,
\* its locals, its response, and what it has done so far.
IdleReq ==
    [op |-> "none", pc |-> "idle", caller |-> "", id |-> 0, meta |-> NoFile,
     seen |-> NoRecord, hit |-> FALSE, fetched |-> FALSE, extracted |-> FALSE,
     call |-> IdleCall, last |-> Stream, skills |-> <<>>, resp |-> NoResp,
     fetches |-> 0, extracts |-> 0, creates |-> 0, recDeletes |-> 0,
     fileDeletes |-> 0, profileWrites |-> 0]

NoMade == [has |-> FALSE, data |-> NoData, fetched |-> FALSE, extracted |-> FALSE,
           outcome |-> Stream]

Done(r, resp) == [r EXCEPT !.pc = "done", !.resp = resp]

\* a slot takes a new request when it is free and the budget allows
Accepts(p) == reqs[p].pc \in {"idle", "done"} /\ started < MaxRequests

\* the ownership test reduced to a test of existence
IsOwnerIfPresent(resume, userId) == resume.present

\* resume.metadata.userId !== userId
IsOwner(resume, userId) == resume.userId = userId

\* `await x` inside try: a rejected promise enters the catch clause
Threw(result) == ~result.ok

\* The opening of getResume, analyzeResume and deleteResume: look the resume
\* up, answer 404 or 403, or go on to `next`.
Lookup(op, u, id, next) ==
    LET resume == getResumeById(files, id)
        r == [IdleReq EXCEPT !.op = op, !.caller = u, !.id = id, !.meta = resume]
    IN  IF ~resume.present THEN Done(r, NotFound)
        ELSE IF ~IsOwner(resume, u) THEN Done(r, Forbidden)
        ELSE [r EXCEPT !.pc = next]

\* the record of a document in the collection, whoever looks for it
RecordOf(coll, id) ==
    IF \E i \in 1..Len(coll) : coll[i].resumeId = id
    THEN coll[CHOOSE i \in 1..Len(coll) : coll[i].resumeId = id]
    ELSE NoRecord

(* POST /api/resume/analyze/:id *)

AnalyzeGetResume(p, u, id) ==
    /\ Accepts(p)
    /\ reqs' = [reqs EXCEPT ![p] = Lookup("analyze", u, id, "findOne")]
    /\ started' = started + 1
    /\ UNCHANGED <<client, files, nextId, analyses, profile, made, glmVars, svcVars, pipeVars, jobVars, authVars>>

AnalyzeFindOne(p) ==
    LET r == reqs[p]
        existing == FindOne(analyses, r.id)
        r1 == [r EXCEPT !.seen = RecordOf(analyses, r.id)]
    IN  /\ r.op = "analyze" /\ r.pc = "findOne"
        /\ reqs' = [reqs EXCEPT ![p] =
              IF existing.present
              THEN Done([r1 EXCEPT !.hit = TRUE],
                        Resp(200, "", FALSE,
                             AnalysisData(existing.skills, existing.summary,
                                          existing.jobKeywords)))
              ELSE [r1 EXCEPT !.pc = "getFile"]]
        /\ UNCHANGED <<client, files, nextId, analyses, profile, started, made, glmVars, svcVars, pipeVars, jobVars, authVars>>

\* getResumeFile, extractText and analyzeResume up to its first remote call
AnalyzeGetFile(p) ==
    LET r == reqs[p]
        f == getResumeFile(files, r.id)
        x == extractText(f.body, r.meta.mimeType)
        c == AnalyzeStart(client, x.text)
        r1 == [r EXCEPT !.fetches = @ + 1, !.fetched = f.ok]
        r2 == [r1 EXCEPT !.extracts = @ + 1, !.extracted = x.ok]
        r3 == [r2 EXCEPT !.call = c]
    IN  /\ r.op = "analyze" /\ r.pc = "getFile"
        /\ reqs' = [reqs EXCEPT ![p] =
              IF Threw(f) THEN Done(r1, AnalyzeCatch(f.err))
              ELSE IF Threw(x) THEN Done(r2, AnalyzeCatch(x.err))
              ELSE IF c.st = "err" THEN Done(r3, AnalyzeCatch(c.err))
              ELSE [r3 EXCEPT !.pc = "remote"]]
        /\ UNCHANGED <<client, files, nextId, analyses, profile, started, made, glmVars, svcVars, pipeVars, jobVars, authVars>>

\* one remote attempt of analyzeResume; on success the skills are converted
AnalyzeRemote(p, outcome) ==
    LET r == reqs[p]
        c == AnalyzeAttempt(r.call, outcome)
        r1 == [r EXCEPT !.call = c, !.last = outcome]
    IN  /\ r.op = "analyze" /\ r.pc = "remote"
        /\ reqs' = [reqs EXCEPT ![p] =
              IF c.st = "err" THEN Done(r1, AnalyzeCatch(c.err))
              ELSE IF c.st = "ok"
              THEN [r1 EXCEPT !.pc = "create",
                              !.skills = SkillsArray(Get(c.value, "skills"))]
              ELSE r1]
        /\ UNCHANGED <<client, files, nextId, analyses, profile, started, made, glmVars, svcVars, pipeVars, jobVars, authVars>>

\* ResumeAnalysis.create and the 200 response
AnalyzeCreate(p) ==
    LET r == reqs[p]
        summary == Get(r.call.value, "summary")
        keywords == Get(r.call.value, "jobKeywords")
        cr == Create(analyses, Record(r.caller, r.id, r.skills, summary, keywords))
        data == AnalysisData(r.skills, summary, keywords)
    IN  /\ r.op = "analyze" /\ r.pc = "create"
        /\ analyses' = cr.coll
        /\ reqs' = [reqs EXCEPT ![p] =
              IF Threw(cr) THEN Done(r, AnalyzeCatch(cr.err))
              ELSE Done([r EXCEPT !.creates = @ + 1], Resp(200, "", FALSE, data))]
        /\ made' = IF Threw(cr) THEN made
                   ELSE [made EXCEPT ![r.id] =
                           [has |-> TRUE, data |-> data, fetched |-> r.fetched,
                            extracted |-> r.extracted, outcome |-> r.last]]
        /\ UNCHANGED <<client, files, nextId, profile, started, glmVars, svcVars, pipeVars, jobVars, authVars>>

(* GET /api/resume/:id *)

GetGetResume(p, u, id) ==
    /\ Accepts(p)
    /\ reqs' = [reqs EXCEPT ![p] = Lookup("get", u, id, "findOne")]
    /\ started' = started + 1
    /\ UNCHANGED <<client, files, nextId, analyses, profile, made, glmVars, svcVars, pipeVars, jobVars, authVars>>

GetFindOne(p) ==
    LET r == reqs[p]
        analysis == FindOne(analyses, r.id)
    IN  /\ r.op = "get" /\ r.pc = "findOne"
        /\ reqs' = [reqs EXCEPT ![p] =
              Done([r EXCEPT !.seen = RecordOf(analyses, r.id)],
                   Resp(200, "", FALSE, ResumeData(r.id, r.meta.fileName, analysis)))]
        /\ UNCHANGED <<client, files, nextId, analyses, profile, started, made, glmVars, svcVars, pipeVars, jobVars, authVars>>

(* DELETE /api/resume/:id *)

DeleteGetResume(p, u, id) ==
    /\ Accepts(p)
    /\ reqs' = [reqs EXCEPT ![p] = Lookup("delete", u, id, "delFile")]
    /\ started' = started + 1
    /\ UNCHANGED <<client, files, nextId, analyses, profile, made, glmVars, svcVars, pipeVars, jobVars, authVars>>

\* ResumeService.deleteResume: bucket.delete rejects for a file that is gone
DeleteFile(p) ==
    LET r == reqs[p]
        gone == ~files[r.id].present
    IN  /\ r.op = "delete" /\ r.pc = "delFile"
        /\ files' = IF gone THEN files ELSE [files EXCEPT ![r.id] = NoFile]
        /\ reqs' = [reqs EXCEPT ![p] =
              IF gone
              THEN Done(r, DeleteCatch(MkErr("", <<"File", "not", "found">>, "undef")))
              ELSE [r EXCEPT !.pc = "delAnalysis", !.fileDeletes = @ + 1]]
        /\ UNCHANGED <<client, nextId, analyses, profile, started, made, glmVars, svcVars, pipeVars, jobVars, authVars>>

\* ResumeAnalysis.deleteOne({ resumeId })
DeleteAnalysis(p) ==
    LET r == reqs[p]
    IN  /\ r.op = "delete" /\ r.pc = "delAnalysis"
        /\ analyses' = DeleteOne(analyses, r.id)
        /\ reqs' = [reqs EXCEPT ![p] =
              [r EXCEPT !.pc = "delProfile",
                        !.recDeletes = @ + Len(analyses) - Len(DeleteOne(analyses, r.id))]]
        /\ UNCHANGED <<client, files, nextId, profile, started, made, glmVars, svcVars, pipeVars, jobVars, authVars>>

\* User.findByIdAndUpdate(userId, { $unset: profile.resume* }) and the 200
DeleteProfile(p) ==
    LET r == reqs[p]
    IN  /\ r.op = "delete" /\ r.pc = "delProfile"
        /\ profile' = [profile EXCEPT ![r.caller] = 0]
        /\ reqs' = [reqs EXCEPT ![p] =
              Done([r EXCEPT !.profileWrites = @ + 1], Resp(200, "", FALSE, NoData))]
        /\ UNCHANGED <<client, files, nextId, analyses, started, made, glmVars, svcVars, pipeVars, jobVars, authVars>>

(* POST /api/resume/upload *)

\* multer's fileFilter and fileSize limit, ahead of the handler
MulterRejects(file) ==
    file.present /\ (file.mimetype \notin ALLOWED_MIME_TYPES \/ file.size > MAX_FILE_SIZE)

\* uploadSingle, then uploadResume up to the end of saveResume
UploadSave(p, u, file) ==
    LET r == [IdleReq EXCEPT !.op = "upload", !.caller = u]
        id == nextId + 1
        thrown == validateFile(file)
        stores == ~MulterRejects(file) /\ file.present /\ thrown = NoErr
    IN  /\ Accepts(p)
        /\ stores => nextId < MaxUploads
        /\ started' = started + 1
        /\ nextId' = IF stores THEN id ELSE nextId
        /\ files' = IF stores
                    THEN [files EXCEPT ![id] =
                            Stored(file.originalname, u, file.mimetype, file.size,
                                   file.body)]
                    ELSE files
        /\ reqs' = [reqs EXCEPT ![p] =
              IF MulterRejects(file) THEN Done(r, Resp(500, "", FALSE, NoData))
              ELSE IF ~file.present THEN Done(r, Resp(400, "NO_FILE", FALSE, NoData))
              ELSE IF thrown # NoErr THEN Done(r, UploadCatch(thrown))
              ELSE [r EXCEPT !.pc = "setProfile", !.id = id,
                             !.meta = Stored(file.originalname, u, file.mimetype,
                                             file.size, file.body)]]
        /\ UNCHANGED <<client, analyses, profile, made, glmVars, svcVars, pipeVars, jobVars, authVars>>

\* User.findByIdAndUpdate(userId, profile.resume*) and the 201
UploadProfile(p) ==
    LET r == reqs[p]
    IN  /\ r.op = "upload" /\ r.pc = "setProfile"
        /\ profile' = [profile EXCEPT ![r.caller] = r.id]
        /\ reqs' = [reqs EXCEPT ![p] =
              Done([r EXCEPT !.profileWrites = @ + 1],
                   Resp(201, "", FALSE, UploadData(r.id, r.meta.fileName)))]
        /\ UNCHANGED <<client, files, nextId, analyses, started, made, glmVars, svcVars, pipeVars, jobVars, authVars>>

-----------------------------------------------------------------------------
(* SpecStore: the methods of ResumeService, called on the bucket.           *)

\* A resume id as callers pass it: a string that is the 24 hex digits of
\* the n-th ObjectId, or a string that is no ObjectId at all.
IdString(n) == [hex |-> TRUE, n |-> n]
InvalidId == [hex |-> FALSE, n |-> 0]
IdStrings == {IdString(n) : n \in 1..(MaxUploads + 1)} \cup {InvalidId}

\* new ObjectId(resumeId): the key, or the error the constructor throws
ObjectId(s) ==
    IF s.hex THEN [ok |-> TRUE, id |-> s.n, err |-> NoErr]
    ELSE [ok |-> FALSE, id |-> 0,
          err |-> MkErr("BSONError", <<"input", "must", "be", "a", "24", "character",
                                       "hex", "string">>, "undef")]

\* bucket.delete(id): the bucket afterwards, or the error for a missing file
bucketDelete(bucket, id) ==
    IF id \in DOMAIN bucket /\ bucket[id].present
    THEN [ok |-> TRUE, bucket |-> [bucket EXCEPT ![id] = NoFile], err |-> NoErr]
    ELSE [ok |-> FALSE, bucket |-> bucket,
          err |-> MkErr("", <<"File", "not", "found", "for", "id">>, "undef")]

\* the files handed to the service: every type at sizes around the limit;
\* the small files and the large ones differ in their bytes
StoreFiles ==
    {Upload("resume", mime, size,
            IF size = 1024 THEN Body(Text(60, 3), TRUE) ELSE Body(Text(51, 2), FALSE)) :
        mime \in ALLOWED_MIME_TYPES \cup {"image/png"},
        size \in {1024, MAX_FILE_SIZE, MAX_FILE_SIZE + 1}}

\* The latest call: the method, its arguments, whether its promise resolved,
\* what it resolved with, the bucket as the call found it, and what was
\* handed to saveResume for each id it has returned.
IdleSvc ==
    [op |-> "none", arg |-> InvalidId, file |-> NoUpload, userId |-> "",
     ok |-> FALSE, err |-> NoErr, id |-> InvalidId, meta |-> NoFile,
     body |-> Body(NoText, FALSE), exists |-> FALSE,
     before |-> [i \in Ids |-> NoFile], idBefore |-> 0,
     saved |-> [i \in Ids |->
                  [stored |-> FALSE, file |-> NoUpload, userId |-> "",
                   deleted |-> FALSE]]]

Call(op) ==
    [IdleSvc EXCEPT !.op = op, !.before = files, !.idBefore = nextId,
                    !.saved = svc.saved]

SvcValidateFile(file) ==
    /\ svc' = [Call("validateFile") EXCEPT
                 !.file = file, !.ok = (validateFile(file) = NoErr),
                 !.err = validateFile(file)]
    /\ UNCHANGED <<client, ctlVars, glmVars, pipeVars, jobVars, authVars>>

SvcSaveResume(file, u) ==
    LET thrown == validateFile(file)
        id == nextId + 1
        c == [Call("saveResume") EXCEPT !.file = file, !.userId = u]
    IN  /\ thrown = NoErr => nextId < MaxUploads
        /\ nextId' = IF thrown = NoErr THEN id ELSE nextId
        /\ files' = IF thrown = NoErr
                    THEN [files EXCEPT ![id] =
                            Stored(file.originalname, u, file.mimetype, file.size,
                                   file.body)]
                    ELSE files
        /\ svc' = IF thrown = NoErr
                  THEN [c EXCEPT !.ok = TRUE, !.id = IdString(id),
                                 !.saved[id] = [stored |-> TRUE, file |-> file,
                                                userId |-> u, deleted |-> FALSE]]
                  ELSE [c EXCEPT !.err = thrown]
        /\ UNCHANGED <<client, analyses, profile, reqs, started, made, glmVars, pipeVars, jobVars, authVars>>

SvcGetResumeById(s) ==
    LET key == ObjectId(s)
        c == [Call("getResumeById") EXCEPT !.arg = s]
    IN  /\ svc' = IF Threw(key) THEN [c EXCEPT !.err = key.err]
                  ELSE [c EXCEPT !.ok = TRUE, !.meta = getResumeById(files, key.id)]
        /\ UNCHANGED <<client, ctlVars, glmVars, pipeVars, jobVars, authVars>>

SvcGetResumeFile(s) ==
    LET key == ObjectId(s)
        f == getResumeFile(files, key.id)
        c == [Call("getResumeFile") EXCEPT !.arg = s]
    IN  /\ svc' = IF Threw(key) THEN [c EXCEPT !.err = key.err]
                  ELSE IF Threw(f) THEN [c EXCEPT !.err = f.err]
                  ELSE [c EXCEPT !.ok = TRUE, !.body = f.body]
        /\ UNCHANGED <<client, ctlVars, glmVars, pipeVars, jobVars, authVars>>

SvcDeleteResume(s) ==
    LET key == ObjectId(s)
        d == bucketDelete(files, key.id)
        c == [Call("deleteResume") EXCEPT !.arg = s]
    IN  /\ files' = IF Threw(key) THEN files ELSE d.bucket
        /\ svc' = IF Threw(key) THEN [c EXCEPT !.err = key.err]
                  ELSE IF Threw(d) THEN [c EXCEPT !.err = d.err]
                  ELSE [c EXCEPT !.ok = TRUE, !.saved[key.id].deleted = TRUE]
        /\ UNCHANGED <<client, nextId, analyses, profile, reqs, started, made, glmVars, pipeVars, jobVars, authVars>>

SvcResumeExists(s) ==
    LET key == ObjectId(s)
        c == [Call("resumeExists") EXCEPT !.arg = s]
    IN  /\ svc' = IF Threw(key) THEN [c EXCEPT !.err = key.err]
                  ELSE [c EXCEPT !.ok = TRUE,
                                 !.exists = getResumeById(files, key.id).present]
        /\ UNCHANGED <<client, ctlVars, glmVars, pipeVars, jobVars, authVars>>

-----------------------------------------------------------------------------
(* PipelineController: POST /api/pipeline/trigger and the child process.    *)

MaxTriggers == 4

\* The value of `this` inside triggerPipeline: the route hands the method
\* to the router unbound, so a request calls it with `this` undefined; a
\* caller that holds the exported instance calls it as its method.
Receivers == {"undefined", "pipelineController"}

IdleTrigger ==
    [n |-> 0, code |-> 0, self |-> "", threw |-> FALSE, spawned |-> FALSE,
     before |-> [isRunning |-> FALSE, lastRun |-> 0, lastResult |-> "undefined"]]

\* a trigger that never finds the pipeline running
NeverRunning(st) == FALSE

\* if (status.isRunning)
IsRunning(st) == st.isRunning

\* triggerPipeline.  spawn() returns a child that runs ("running") or a
\* child without a pid ("failing").  A child whose spawn failed has its 'error' emitted by
\* process.nextTick, ahead of every other request.  With `this` undefined
\* the call of this.runPipelineInBackground throws a TypeError after the
\* response was sent, and no process is spawned.
TriggerPipeline(self, outcome) ==
    LET t == [IdleTrigger EXCEPT !.n = trigger.n + 1, !.self = self, !.before = status]
    IN  /\ trigger.n < MaxTriggers
        /\ \A i \in 1..Len(children) : children[i].st # "failing"
        /\ IF IsRunning(status)
           THEN /\ trigger' = [t EXCEPT !.code = 409]
                /\ UNCHANGED <<status, children, now>>
           ELSE /\ status' = [status EXCEPT !.isRunning = TRUE]
                /\ now' = now + 1
                /\ IF self = "undefined"
                   THEN /\ trigger' = [t EXCEPT !.code = 200, !.threw = TRUE]
                        /\ UNCHANGED children
                   ELSE /\ trigger' = [t EXCEPT !.code = 200, !.spawned = TRUE]
                        /\ children' = Append(children, [st |-> outcome, code |-> 0])
        /\ UNCHANGED <<client, ctlVars, glmVars, svcVars, jobVars, authVars>>

\* process.on('close'): the child has ended and its streams are closed
ChildClose(i, code) ==
    /\ children[i].st = "running"
    /\ children' = [children EXCEPT ![i] = [st |-> "closed", code |-> code]]
    /\ status' = [isRunning |-> FALSE, lastRun |-> now,
                  lastResult |-> IF code = 0 THEN "success" ELSE "failure"]
    /\ now' = now + 1
    /\ UNCHANGED <<trigger, client, ctlVars, glmVars, svcVars, jobVars, authVars>>

\* process.on('error'): the child could not be spawned.  A child without a
\* pid has no streams to wait for, so its 'close' is emitted in the same
\* tick with the negative error code, and the 'close' handler runs too.
ChildError(i) ==
    /\ children[i].st = "failing"
    /\ children' = [children EXCEPT ![i] = [st |-> "closed", code |-> -2]]
    /\ status' = [isRunning |-> FALSE, lastRun |-> now, lastResult |-> "failure"]
    /\ now' = now + 1
    /\ UNCHANGED <<trigger, client, ctlVars, glmVars, svcVars, jobVars, authVars>>

-----------------------------------------------------------------------------
(* The job listings: GET /api/jobs of the filtered-job controller and of    *)
(* the job controller.  Both collections are only read.  A text field of a  *)
(* document is held as the set of its case-folded words, and a search word  *)
(* matches a field that holds it.                                           *)

Undefined == [k |-> "undef", n |-> 0]
Num(n) == [k |-> "num", n |-> n]

\* req.query.x ? parseInt(req.query.x, 10) : undefined, on the query
\* strings that are tried ("" stands for a parameter that is not sent);
\* parseFloat reads the minScore strings tried to the same numbers
parseInt(s) ==
    CASE s = "" -> Undefined
      [] s = "abc" -> [k |-> "nan", n |-> 0]
      [] s = "2.7" -> Num(2)
      [] s = "-1" -> Num(-1)
      [] s = "0" -> Num(0)
      [] s = "1" -> Num(1)
      [] s = "2" -> Num(2)
      [] s = "3" -> Num(3)
      [] s = "40" -> Num(40)
      [] s = "70" -> Num(70)
      [] s = "100" -> Num(100)
      [] s = "101" -> Num(101)
      [] s = "1000" -> Num(1000)

\* x || d
OrElse(x, d) == IF x.k = "num" /\ x.n # 0 THEN x.n ELSE d

Max(a, b) == IF a >= b THEN a ELSE b

\* Math.ceil(a / b)
Ceil(a, b) == (a + b - 1) \div b

\* getJobs without the upper clamp of the limit
PaginationUnclamped(query) ==
    LET page == Max(1, OrElse(query.page, 1))
        limit == Max(1, OrElse(query.limit, 10))
    IN  [page |-> page, limit |-> limit, skip |-> (page - 1) * limit]

\* page, limit and skip, as both getJobs compute them
Pagination(query) ==
    LET page == Max(1, OrElse(query.page, 1))
        limit == Min(100, Max(1, OrElse(query.limit, 10)))
    IN  [page |-> page, limit |-> limit, skip |-> (page - 1) * limit]

\* job_scraper_filtered.filtered_jobs
filtered_jobs ==
    LET Job(title, company, place, et, wa, platform, date, passed, score, at) ==
            [job_title |-> title, job_description |-> {"team", "role"},
             company_name_normalized |-> company,
             city |-> {place[1]}, state |-> {place[2]},
             job_location |-> {place[1], place[2]},
             employment_type |-> et, work_arrangement |-> wa, platform |-> platform,
             date |-> date, passed |-> passed, match_score |-> score,
             updated_at |-> at, created_at |-> at]
    IN  {Job({"backend", "engineer"}, {"acme"}, <<"sydney", "nsw">>,
             "full_time", "remote", "linkedin", "2026-01-01", TRUE, 80, 6),
         Job({"frontend", "engineer"}, {"globex"}, <<"melbourne", "vic">>,
             "contract", "hybrid", "seek", "2026-01-02", TRUE, 60, 5),
         Job({"data", "analyst"}, {"acme"}, <<"sydney", "nsw">>,
             "full_time", "onsite", "indeed", "2026-01-01", TRUE, 40, 4),
         Job({"backend", "engineer"}, {"initech"}, <<"perth", "wa">>,
             "full_time", "remote", "linkedin", "2026-01-02", FALSE, 90, 3),
         Job({"platform", "engineer"}, {"sydney", "labs"}, <<"brisbane", "qld">>,
             "contract", "remote", "seek", "2026-01-01", TRUE, 70, 2),
         Job({"designer"}, {"globex"}, <<"sydney", "nsw">>,
             "full_time", "hybrid", "linkedin", "2026-01-02", TRUE, 70, 1)}

\* the jobs collection of the JobModel
jobs == {d \in filtered_jobs : d.updated_at >= 2}

\* a filter document with no condition set
NoFilter ==
    [passed |-> FALSE, date |-> "", platform |-> "", gte |-> Undefined,
     or |-> {}, text |-> "", employment_type |-> "", work_arrangement |-> ""]

\* collection.find(filter): the documents the filter document selects.  An
\* $or condition is a set of <<field, word>> alternatives.
Matches(d, filter) ==
    /\ filter.passed => d.passed
    /\ filter.date # "" => d.date = filter.date
    /\ filter.platform # "" => d.platform = filter.platform
    /\ filter.gte.k = "num" => d.match_score >= filter.gte.n
    /\ filter.or # {} => \E alt \in filter.or : alt[2] \in d[alt[1]]
    /\ filter.text # "" =>
          filter.text \in (d.job_title \cup d.job_description
                            \cup d.company_name_normalized)
    /\ filter.employment_type # "" => d.employment_type = filter.employment_type
    /\ filter.work_arrangement # "" => d.work_arrangement = filter.work_arrangement

\* find(filter).sort({[key]: order}).skip(skip).limit(limit).toArray()
Find(coll, filter, key, order, skip, limit) ==
    LET hits == {d \in coll : Matches(d, filter)}
        Before(a, b) == IF order = 1 THEN a[key] < b[key] ELSE a[key] > b[key]
        rank(d) == Cardinality({e \in hits : Before(e, d)}) + 1
        n == Max(0, Min(limit, Cardinality(hits) - skip))
    IN  [i \in 1..n |-> CHOOSE d \in hits : rank(d) = skip + i]

\* FilteredJobService.getJobs: the filter document is built by assignments
\* in the order of the code, a later assignment to a key replacing an
\* earlier one.
FilteredJobService_getJobs(query) ==
    LET pg == Pagination(query)
        f0 == [NoFilter EXCEPT !.passed = TRUE]
        f1 == IF query.date # "" THEN [f0 EXCEPT !.date = query.date] ELSE f0
        f2 == IF query.platform # "" THEN [f1 EXCEPT !.platform = query.platform] ELSE f1
        f3 == IF query.min_score # Undefined THEN [f2 EXCEPT !.gte = query.min_score] ELSE f2
        f4 == IF query.location # ""
              THEN [f3 EXCEPT !.or = {<<"city", query.location>>,
                                      <<"state", query.location>>,
                                      <<"job_location", query.location>>}]
              ELSE f3
        f5 == IF query.employment_type # ""
              THEN [f4 EXCEPT !.employment_type = query.employment_type] ELSE f4
        f6 == IF query.work_arrangement # ""
              THEN [f5 EXCEPT !.work_arrangement = query.work_arrangement] ELSE f5
        filter == IF query.q # ""
                  THEN [f6 EXCEPT !.or = {<<"job_title", query.q>>,
                                          <<"job_description", query.q>>,
                                          <<"company_name_normalized", query.q>>}]
                  ELSE f6
        sortOrder == IF query.sortOrder = "asc" THEN 1 ELSE -1
        total == Cardinality({d \in filtered_jobs : Matches(d, filter)})
    IN  [data |-> Find(filtered_jobs, filter, "updated_at", sortOrder, pg.skip, pg.limit),
         total |-> total, page |-> pg.page, limit |-> pg.limit,
         totalPages |-> Ceil(total, pg.limit)]

\* JobService.getJobs
JobService_getJobs(query) ==
    LET pg == Pagination(query)
        f1 == IF query.q # "" THEN [NoFilter EXCEPT !.text = query.q] ELSE NoFilter
        f2 == IF query.location # ""
              THEN [f1 EXCEPT !.or = {<<"city", query.location>>,
                                      <<"state", query.location>>}]
              ELSE f1
        f3 == IF query.employment_type # ""
              THEN [f2 EXCEPT !.employment_type = query.employment_type] ELSE f2
        filter == IF query.work_arrangement # ""
                  THEN [f3 EXCEPT !.work_arrangement = query.work_arrangement] ELSE f3
        sortOrder == IF query.sortOrder = "asc" THEN 1 ELSE -1
        total == Cardinality({d \in jobs : Matches(d, filter)})
    IN  [data |-> Find(jobs, filter, "created_at", sortOrder, pg.skip, pg.limit),
         total |-> total, page |-> pg.page, limit |-> pg.limit,
         totalPages |-> Ceil(total, pg.limit)]

\* the latest GET /api/jobs request: its controller, its query string and
\* the body of its response
IdleListing ==
    [op |-> "none",
     raw |-> [page |-> "", limit |-> "", q |-> "", location |-> "",
              employmentType |-> "", workArrangement |-> "", platform |-> "",
              minScore |-> "", date |-> "", sortOrder |-> ""],
     body |-> [data |-> <<>>, total |-> 0, page |-> 0, limit |-> 0, totalPages |-> 0]]

\* the query strings that are tried: every page and limit with and without
\* a keyword, and every combination of filters on the first pages
RawQueries ==
    {[IdleListing.raw EXCEPT !.page = p, !.limit = l, !.q = q, !.sortOrder = o] :
        p \in {"", "abc", "2.7", "-1", "0", "1", "2", "3"},
        l \in {"", "abc", "-1", "0", "1", "2", "100", "101", "1000"},
        q \in {"", "engineer"}, o \in {"", "asc"}}
    \cup
    [page : {"", "2"}, limit : {"", "1"},
     q : {"", "engineer", "sydney"},
     location : {"", "sydney", "vic"},
     employmentType : {"", "full_time"},
     workArrangement : {"", "remote"},
     platform : {"", "linkedin"},
     minScore : {"", "0", "70"},
     date : {"", "2026-01-01"},
     sortOrder : {""}]

\* FilteredJobController.listJobs
FilteredListJobs(raw) ==
    LET query == [page |-> parseInt(raw.page), limit |-> parseInt(raw.limit),
                  q |-> raw.q, location |-> raw.location,
                  employment_type |-> raw.employmentType,
                  work_arrangement |-> raw.workArrangement,
                  platform |-> raw.platform, min_score |-> parseInt(raw.minScore),
                  date |-> raw.date, sortOrder |-> raw.sortOrder]
    IN  /\ listing.op = "none"
        /\ listing' = [op |-> "filtered", raw |-> raw,
                       body |-> FilteredJobService_getJobs(query)]
        /\ UNCHANGED <<client, ctlVars, glmVars, svcVars, pipeVars, authVars>>

\* JobController.listJobs: it reads no platform, minScore or date
ListJobs(raw) ==
    LET query == [page |-> parseInt(raw.page), limit |-> parseInt(raw.limit),
                  q |-> raw.q, location |-> raw.location,
                  employment_type |-> raw.employmentType,
                  work_arrangement |-> raw.workArrangement,
                  sortOrder |-> raw.sortOrder]
    IN  /\ listing.op = "none"
        /\ raw.platform = "" /\ raw.minScore = "" /\ raw.date = ""
        /\ listing' = [op |-> "jobs", raw |-> raw, body |-> JobService_getJobs(query)]
        /\ UNCHANGED <<client, ctlVars, glmVars, svcVars, pipeVars, authVars>>

-----------------------------------------------------------------------------
(* Accounts: the auth service and controller, the users collection and the *)
(* authenticate middleware in front of the protected routes.  register is  *)
(* split at its awaits, findOne and save, so that concurrent registrations *)
(* meet at the unique index; every other handler is one step.  Time is     *)
(* counted in minutes.                                                      *)

MaxAuthRequests == 3
MaxTicks == 2
CodeLife == 15

Emails == {"a@x.com", "b@x.com"}

\* No request yet: the number of requests received, the register requests
\* waiting for their save, the latest request answered (for a protected
\* route: whether its handler was invoked, and with which req.user), and
\* per address the password of its account and the code last mailed to it.
IdleAuth ==
    [n |-> 0,
     reg |-> [p \in Procs |-> [pc |-> "idle", email |-> "", password |-> ""]],
     last |-> [op |-> "none", email |-> "", arg |-> "",
               header |-> [present |-> FALSE, scheme |-> "",
                           token |-> [payload |-> [userId |-> 0, email |-> ""],
                                      signed |-> FALSE, expired |-> FALSE]],
               invoked |-> FALSE, user |-> [userId |-> 0, email |-> ""],
               resp |-> NoResp,
               token |-> [payload |-> [userId |-> 0, email |-> ""],
                          signed |-> FALSE, expired |-> FALSE]],
     told |-> [e \in Emails |-> [password |-> "", code |-> ""]]]

\* the pre-save hook: bcrypt.hash of the plain password
hash(password) == <<"$2b$10$", password>>

\* a comparison that accepts every password
comparePasswordAny(user, password) == TRUE

\* bcrypt.compare(password, this.passwordHash)
comparePassword(user, password) ==
    user.passwordHash[1] = "$2b$10$" /\ user.passwordHash[2] = password

\* generateVerificationCode at time t, the random code being `code`
generateVerificationCode(user, code, t) ==
    [user EXCEPT !.verificationCode = code, !.verificationCodeExpires = t + CodeLife]

\* generateToken(payload): a token signed with the server's secret
generateToken(payload) == [payload |-> payload, signed |-> TRUE, expired |-> FALSE]

\* verifyToken(token): the payload of a token that carries the server's
\* signature and has not expired; any other token makes it throw
verifyToken(token) ==
    IF token.signed /\ ~token.expired THEN Ok(token.payload)
    ELSE Fail(MkErr("JsonWebTokenError", <<"invalid", "token">>, "undef"))

\* authenticate passing the request on whatever verifyToken says
authenticateTrusting(header) ==
    IF ~header.present \/ header.scheme # "Bearer "
    THEN [next |-> FALSE, user |-> IdleAuth.last.user,
          resp |-> Resp(401, "UNAUTHORIZED", FALSE, NoData)]
    ELSE [next |-> TRUE, user |-> header.token.payload, resp |-> NoResp]

\* authenticate: the 401 it answers, or next() with req.user set
authenticate(header) ==
    IF ~header.present \/ header.scheme # "Bearer "
    THEN [next |-> FALSE, user |-> IdleAuth.last.user,
          resp |-> Resp(401, "UNAUTHORIZED", FALSE, NoData)]
    ELSE LET payload == verifyToken(header.token)
         IN  IF Threw(payload)
             THEN [next |-> FALSE, user |-> IdleAuth.last.user,
                   resp |-> Resp(401, "UNAUTHORIZED", FALSE, NoData)]
             ELSE [next |-> TRUE, user |-> payload.value, resp |-> NoResp]

\* the Authorization headers that are tried: none; Bearer tokens that are
\* genuine, forged or expired; and a genuine token behind a scheme that is
\* not 'Bearer '
Headers ==
    LET tokens == {[payload |-> [userId |-> 1, email |-> "a@x.com"], signed |-> s[1],
                    expired |-> s[2]] : s \in {<<TRUE, FALSE>>, <<FALSE, FALSE>>,
                                               <<TRUE, TRUE>>}}
                  \cup {generateToken([userId |-> 2, email |-> "b@x.com"])}
    IN  {IdleAuth.last.header}
        \cup [present : {TRUE}, scheme : {"Bearer "}, token : tokens]
        \cup [present : {TRUE}, scheme : {"Basic "},
              token : {generateToken([userId |-> 1, email |-> "a@x.com"])}]

\* User.findOne({ email }): the position of the account, or 0
findOne(coll, email) ==
    IF \E i \in 1..Len(coll) : coll[i].email = email
    THEN CHOOSE i \in 1..Len(coll) : coll[i].email = email
    ELSE 0

\* a users collection without the unique index on email
EmailIndexMissing(coll, email) == FALSE

\* the unique index on email: TRUE when an insert of `email` is refused
EmailIndex(coll, email) == findOne(coll, email) # 0

\* verifyEmail's tests of the code, expiry left out
CodeCheckNoExpiry(user, code, t) ==
    IF user.verificationCode = "" \/ user.verificationCode # code THEN "INVALID_CODE"
    ELSE ""

\* verifyEmail's tests of the code: the AuthError code, or "" when it passes
CodeCheck(user, code, t) ==
    IF user.verificationCode = "" \/ user.verificationCode # code THEN "INVALID_CODE"
    ELSE IF user.verificationCodeExpires = 0 \/ user.verificationCodeExpires < t
    THEN "CODE_EXPIRED"
    ELSE ""

\* POST /api/auth/register up to the answer of findOne
RegisterFindOne(p, email, password) ==
    /\ auth.n < MaxAuthRequests
    /\ auth.reg[p].pc = "idle"
    /\ auth' =
          IF findOne(accounts, email) # 0
          THEN [auth EXCEPT !.n = @ + 1,
                  !.last = [IdleAuth.last EXCEPT !.op = "register", !.email = email,
                              !.arg = password,
                              !.resp = Resp(400, "EMAIL_ALREADY_EXISTS", FALSE, NoData)]]
          ELSE [auth EXCEPT !.n = @ + 1,
                  !.reg[p] = [pc |-> "save", email |-> email, password |-> password]]
    /\ UNCHANGED <<accounts, time, client, ctlVars, glmVars, svcVars, pipeVars, jobVars>>

\* register from generateVerificationCode on: the pre-save hook, the
\* insert, the mail and the answer.  An insert refused by the index is no
\* AuthError and goes to next(error), which answers 500.
RegisterSave(p, code) ==
    LET r == auth.reg[p]
        user == generateVerificationCode(
                    [email |-> r.email, passwordHash |-> hash(r.password),
                     emailVerified |-> FALSE, verificationCode |-> "",
                     verificationCodeExpires |-> 0], code, time)
        answered == [IdleAuth.last EXCEPT !.op = "register", !.email = r.email,
                                          !.arg = r.password]
    IN  /\ r.pc = "save"
        /\ IF EmailIndex(accounts, r.email)
           THEN /\ auth' = [auth EXCEPT !.reg[p] = IdleAuth.reg[p],
                              !.last = [answered EXCEPT
                                          !.resp = Resp(500, "", FALSE, NoData)]]
                /\ UNCHANGED accounts
           ELSE /\ accounts' = Append(accounts, user)
                /\ auth' = [auth EXCEPT !.reg[p] = IdleAuth.reg[p],
                              !.last = [answered EXCEPT
                                          !.resp = Resp(201, "", FALSE, NoData)],
                              !.told[r.email] = [password |-> r.password, code |-> code]]
        /\ UNCHANGED <<time, client, ctlVars, glmVars, svcVars, pipeVars, jobVars>>

\* POST /api/auth/verify-email
VerifyEmail(email, code) ==
    LET i == findOne(accounts, email)
        answered == [IdleAuth.last EXCEPT !.op = "verify", !.email = email, !.arg = code]
        failed(c) == [auth EXCEPT !.n = @ + 1,
                        !.last = [answered EXCEPT !.resp = Resp(400, c, FALSE, NoData)]]
    IN  /\ auth.n < MaxAuthRequests
        /\ IF i = 0
           THEN auth' = failed("USER_NOT_FOUND") /\ UNCHANGED accounts
           ELSE IF CodeCheck(accounts[i], code, time) # ""
           THEN auth' = failed(CodeCheck(accounts[i], code, time)) /\ UNCHANGED accounts
           ELSE /\ accounts' = [accounts EXCEPT ![i] =
                                   [@ EXCEPT !.emailVerified = TRUE,
                                             !.verificationCode = "",
                                             !.verificationCodeExpires = 0]]
                /\ auth' = [auth EXCEPT !.n = @ + 1,
                              !.last = [answered EXCEPT
                                          !.resp = Resp(200, "", FALSE, NoData)]]
        /\ UNCHANGED <<time, client, ctlVars, glmVars, svcVars, pipeVars, jobVars>>

\* POST /api/auth/login
Login(email, password) ==
    LET i == findOne(accounts, email)
        answered == [IdleAuth.last EXCEPT !.op = "login", !.email = email,
                                          !.arg = password]
        failed(c) == [answered EXCEPT !.resp = Resp(401, c, FALSE, NoData)]
    IN  /\ auth.n < MaxAuthRequests
        /\ auth' = [auth EXCEPT !.n = @ + 1,
              !.last =
                 IF i = 0 THEN failed("INVALID_CREDENTIALS")
                 ELSE IF ~accounts[i].emailVerified THEN failed("EMAIL_NOT_VERIFIED")
                 ELSE IF ~comparePassword(accounts[i], password)
                 THEN failed("INVALID_CREDENTIALS")
                 ELSE [answered EXCEPT
                         !.resp = Resp(200, "", FALSE, NoData),
                         !.token = generateToken([userId |-> i, email |-> accounts[i].email])]]
        /\ UNCHANGED <<accounts, time, client, ctlVars, glmVars, svcVars, pipeVars, jobVars>>

\* POST /api/auth/resend-verification
ResendVerification(email, code) ==
    LET i == findOne(accounts, email)
        answered == [IdleAuth.last EXCEPT !.op = "resend", !.email = email]
        failed(c) == [auth EXCEPT !.n = @ + 1,
                        !.last = [answered EXCEPT !.resp = Resp(400, c, FALSE, NoData)]]
    IN  /\ auth.n < MaxAuthRequests
        /\ IF i = 0
           THEN auth' = failed("USER_NOT_FOUND") /\ UNCHANGED accounts
           ELSE IF accounts[i].emailVerified
           THEN auth' = failed("EMAIL_ALREADY_VERIFIED") /\ UNCHANGED accounts
           ELSE /\ accounts' = [accounts EXCEPT ![i] =
                                   generateVerificationCode(@, code, time)]
                /\ auth' = [auth EXCEPT !.n = @ + 1,
                              !.last = [answered EXCEPT
                                          !.resp = Resp(200, "", FALSE, NoData)],
                              !.told[email].code = code]
        /\ UNCHANGED <<time, client, ctlVars, glmVars, svcVars, pipeVars, jobVars>>

\* A request to a route behind authenticate: GET /api/auth/me, or one of
\* the resume routes.  When authenticate calls next() the handler is
\* invoked with req.user; me answers with the user of req.user.userId, and
\* the handlers of the resume routes are the actions of Spec.
ProtectedRequest(route, header) ==
    LET a == authenticate(header)
        answered == [IdleAuth.last EXCEPT !.op = route, !.header = header]
    IN  /\ auth.n < MaxAuthRequests
        /\ auth' = [auth EXCEPT !.n = @ + 1,
              !.last =
                 IF ~a.next THEN [answered EXCEPT !.resp = a.resp]
                 ELSE IF route # "me"
                 THEN [answered EXCEPT !.invoked = TRUE, !.user = a.user]
                 ELSE [answered EXCEPT !.invoked = TRUE, !.user = a.user,
                         !.resp = IF a.user.userId \in 1..Len(accounts)
                                  THEN Resp(200, "", FALSE, NoData)
                                  ELSE Resp(404, "USER_NOT_FOUND", FALSE, NoData)]]
        /\ UNCHANGED <<accounts, time, client, ctlVars, glmVars, svcVars, pipeVars, jobVars>>

\* a quarter of an hour passes
Tick ==
    /\ time < 1 + CodeLife * MaxTicks
    /\ time' = time + CodeLife
    /\ UNCHANGED <<accounts, auth, client, ctlVars, glmVars, svcVars, pipeVars, jobVars>>

-----------------------------------------------------------------------------
(* Specifications.                                                          *)

Init ==
    /\ client \in BOOLEAN
    /\ files = [i \in Ids |-> NoFile]
    /\ nextId = 0
    /\ analyses = <<>>
    /\ profile = [u \in Users |-> 0]
    /\ reqs = [p \in Procs |-> IdleReq]
    /\ started = 0
    /\ made = [i \in Ids |-> NoMade]
    /\ glmCall = IdleCall
    /\ glmText = NoText
    /\ glmTrace = <<>>
    /\ svc = IdleSvc
    /\ status = [isRunning |-> FALSE, lastRun |-> 0, lastResult |-> "undefined"]
    /\ children = <<>>
    /\ now = 1
    /\ trigger = IdleTrigger
    /\ listing = IdleListing
    /\ accounts = <<>>
    /\ auth = IdleAuth
    /\ time = 1

Next ==
    \/ \E p \in Procs, u \in Users, file \in Uploads : UploadSave(p, u, file)
    \/ \E p \in Procs : UploadProfile(p)
    \/ \E p \in Procs, u \in Users, id \in Ids : GetGetResume(p, u, id)
    \/ \E p \in Procs : GetFindOne(p)
    \/ \E p \in Procs, u \in Users, id \in Ids : AnalyzeGetResume(p, u, id)
    \/ \E p \in Procs : AnalyzeFindOne(p)
    \/ \E p \in Procs : AnalyzeGetFile(p)
    \/ \E p \in Procs, outcome \in HandlerOutcomes : AnalyzeRemote(p, outcome)
    \/ \E p \in Procs : AnalyzeCreate(p)
    \/ \E p \in Procs, u \in Users, id \in Ids : DeleteGetResume(p, u, id)
    \/ \E p \in Procs : DeleteFile(p)
    \/ \E p \in Procs : DeleteAnalysis(p)
    \/ \E p \in Procs : DeleteProfile(p)

Spec == Init /\ [][Next]_vars

NextGLM == GLMInvoke \/ GLMRemote

SpecGLM == Init /\ [][NextGLM]_vars

NextStore ==
    \/ \E file \in StoreFiles : SvcValidateFile(file)
    \/ \E file \in StoreFiles, u \in Users : SvcSaveResume(file, u)
    \/ \E s \in IdStrings : SvcGetResumeById(s)
    \/ \E s \in IdStrings : SvcGetResumeFile(s)
    \/ \E s \in IdStrings : SvcDeleteResume(s)
    \/ \E s \in IdStrings : SvcResumeExists(s)

SpecStore == Init /\ [][NextStore]_vars

NextPipeline ==
    \/ \E self \in Receivers, outcome \in {"running", "failing"} :
          TriggerPipeline(self, outcome)
    \/ \E i \in 1..Len(children), code \in {0, 1} : ChildClose(i, code)
    \/ \E i \in 1..Len(children) : ChildError(i)

SpecPipeline == Init /\ [][NextPipeline]_vars

NextJobs ==
    /\ listing.op = "none"
    /\ \/ \E raw \in RawQueries : FilteredListJobs(raw)
       \/ \E raw \in RawQueries : ListJobs(raw)

SpecJobs == Init /\ [][NextJobs]_vars

NextAuth ==
    \/ \E p \in Procs, r \in {<<"a@x.com", "hunter2hunter2">>, <<"a@x.com", "correcthorse">>,
                                <<"b@x.com", "hunter2hunter2">>} :
          RegisterFindOne(p, r[1], r[2])
    \/ \E p \in Procs, code \in {"123456", "654321"} : RegisterSave(p, code)
    \/ \E email \in Emails, code \in {"123456", "654321"} : VerifyEmail(email, code)
    \/ \E email \in Emails, password \in {"hunter2hunter2", "correcthorse"} :
          Login(email, password)
    \/ \E email \in Emails, code \in {"123456", "654321"} :
          ResendVerification(email, code)
    \/ \E route \in {"me", "upload", "get", "analyze", "delete"}, header \in Headers :
          ProtectedRequest(route, header)
    \/ Tick

SpecAuth == Init /\ [][NextAuth]_vars

-----------------------------------------------------------------------------
(* Properties.                                                              *)

\* what a request has read and written so far
Untouched(r) ==
    /\ r.fetches = 0 /\ r.extracts = 0 /\ r.call.calls = 0
    /\ r.creates = 0 /\ r.recDeletes = 0 /\ r.fileDeletes = 0 /\ r.profileWrites = 0

\* a request on an existing document by somebody who does not own it
Foreign(r) ==
    /\ r.op \in {"get", "analyze", "delete"}
    /\ r.meta.present /\ r.meta.userId # r.caller

\* the remote answer carries a JSON object with a skills mapping and a
\* summary string
WellFormed(outcome) ==
    /\ outcome.kind = "choices"
    /\ LET span == JsonMatch(outcome.content)
       IN  /\ Len(span) = 1 /\ span[1].c = "json"
           /\ Get(span[1].j, "skills").t \in {"obj", "arr"}
           /\ Get(span[1].j, "summary").t = "str"
           /\ Get(span[1].j, "summary").v # ""

\* the remote answer is a failure of the retryable classes: timeout,
\* connection reset, rate limit, network, or a malformed generation
RetryableClass(outcome) ==
    \/ /\ outcome.kind = "throw"
       /\ \/ outcome.err.code \in {"ETIMEDOUT", "ECONNRESET"}
          \/ Includes(outcome.err.msg, "timeout")
          \/ Includes(outcome.err.msg, "rate limit")
          \/ Includes(outcome.err.msg, "network")
    \/ /\ outcome.kind = "choices"
       /\ outcome.content # <<>>
       /\ ~WellFormed(outcome)

C1_Inv ==
    \A p \in Procs :
        Foreign(reqs[p]) =>
            /\ reqs[p].pc = "done"
            /\ reqs[p].resp = Resp(403, "FORBIDDEN", FALSE, NoData)
            /\ Untouched(reqs[p])

C1_Step ==
    \A p \in Procs :
        (reqs'[p] # reqs[p] /\ Foreign(reqs'[p])) =>
            /\ files' = files /\ analyses' = analyses /\ profile' = profile

\* C1: a get, analyze or delete request on an existing document by a caller
\* who is not its owner ends at once with 403 FORBIDDEN and no data, having
\* fetched no bytes, extracted no text, made no remote call, and created or
\* deleted no record, file or profile entry; the step that serves it leaves
\* the file store, the analysis collection and the profiles unchanged.
C1_ForbiddenNoEffect == []C1_Inv /\ [][C1_Step]_vars

C1_Witness ==
    \E p \in Procs :
        /\ reqs[p].op = "delete" /\ Foreign(reqs[p]) /\ reqs[p].pc = "done"
        /\ analyses # <<>>
        /\ files[reqs[p].id].present

\* C2: an analyze request by the owner that finds a record for the document
\* answers 200 with the stored skills, summary and jobKeywords and does
\* nothing else: no byte fetch, no extraction, no remote call, no write.
C2_CacheHit ==
    \A p \in Procs :
        (reqs[p].op = "analyze" /\ reqs[p].seen.present) =>
            /\ reqs[p].pc = "done"
            /\ reqs[p].resp =
                 Resp(200, "", FALSE,
                      AnalysisData(reqs[p].seen.skills, reqs[p].seen.summary,
                                   reqs[p].seen.jobKeywords))
            /\ Untouched(reqs[p])

C2_Witness ==
    \E p \in Procs :
        /\ reqs[p].op = "analyze" /\ reqs[p].seen.present /\ reqs[p].pc = "done"
        /\ reqs[p].resp.data.has

\* C3: the output of an analyze request served from the record equals the
\* output of the request that computed and stored that record, and the
\* cached request extracts nothing and calls nothing.
C3_Idempotent ==
    \A p \in Procs :
        (/\ reqs[p].op = "analyze" /\ reqs[p].pc = "done" /\ reqs[p].hit
         /\ RecordOf(analyses, reqs[p].id) = reqs[p].seen) =>
            /\ reqs[p].resp.data = made[reqs[p].id].data
            /\ reqs[p].extracts = 0 /\ reqs[p].call.calls = 0

C4_Inv ==
    /\ \A i \in 1..Len(analyses) :
         LET m == made[analyses[i].resumeId]
         IN  /\ m.has /\ m.fetched /\ m.extracted /\ WellFormed(m.outcome)
             /\ analyses[i].summary.t = "str" /\ analyses[i].summary.v # ""
             /\ analyses[i].jobKeywords.t = "arr"
    /\ \A p \in Procs :
         /\ reqs[p].creates > 0 =>
              /\ reqs[p].fetched /\ reqs[p].extracted /\ reqs[p].call.st = "ok"
              /\ WellFormed(reqs[p].last)
         /\ (reqs[p].op = "analyze" /\ reqs[p].pc = "done" /\ reqs[p].resp.status # 200)
              => reqs[p].creates = 0

C4_Step ==
    \A p \in Procs :
        (/\ reqs'[p] # reqs[p]
         /\ reqs'[p].op = "analyze" /\ reqs'[p].pc = "done"
         /\ reqs'[p].resp.status # 200) => analyses' = analyses

\* C4: every record of the collection was written by an analyze request that
\* fetched the bytes, extracted the text and got a well-formed analysis back;
\* an analyze request that fails writes nothing, and the step on which it
\* fails leaves the collection as it was.
C4_RecordOnlyAfterSuccess == []C4_Inv /\ [][C4_Step]_vars

C4_Witness ==
    /\ analyses # <<>>
    /\ \E p \in Procs :
         /\ reqs[p].op = "analyze" /\ reqs[p].pc = "done"
         /\ reqs[p].call.st = "err" /\ reqs[p].call.calls = 3

C5_Inv ==
    \A i, j \in 1..Len(analyses) :
        (analyses[i].userId = analyses[j].userId
         /\ analyses[i].resumeId = analyses[j].resumeId) => i = j

C5_Step ==
    \A i \in 1..Len(analyses) :
        (\E j \in 1..Len(analyses') :
            /\ analyses'[j].userId = analyses[i].userId
            /\ analyses'[j].resumeId = analyses[i].resumeId)
        => \E j \in 1..Len(analyses') : analyses'[j] = analyses[i]

\* C5: the collection never holds two records for one (owner, document)
\* pair, and no step replaces the record a pair already has: a later insert
\* for the pair is refused.
C5_FirstInsertWins == []C5_Inv /\ [][C5_Step]_vars

C5_Witness ==
    \E p, q \in Procs :
        /\ p # q
        /\ reqs[p].op = "analyze" /\ reqs[p].pc = "done" /\ reqs[p].creates = 1
        /\ reqs[q].op = "analyze" /\ reqs[q].pc = "done" /\ reqs[q].id = reqs[p].id
        /\ reqs[q].call.st = "ok" /\ reqs[q].resp.code = "11000"
        /\ reqs[q].last # reqs[p].last

\* every attempt so far failed with a retryable error
AllRetryable(trace) ==
    \A i \in 1..Len(trace) :
        ~Attempt(trace[i]).ok /\ Attempt(trace[i]).err.retryable = "true"

\* C6: the remote call is never invoked more than 3 times for one
\* analyzeResume call; while every attempt fails with a retryable error the
\* call goes on until the 3rd attempt and then fails with that attempt's error.
C6_RetryBound ==
    /\ glmCall.calls = Len(glmTrace)
    /\ glmCall.calls <= 3
    /\ (glmTrace # <<>> /\ AllRetryable(glmTrace)) =>
          IF Len(glmTrace) < 3 THEN glmCall.st = "running"
          ELSE /\ glmCall.st = "err"
               /\ glmCall.err = Attempt(glmTrace[3]).err

C6_Witness ==
    /\ glmCall.st = "err" /\ Len(glmTrace) = 3 /\ AllRetryable(glmTrace)
    /\ glmTrace[1] = Sample.TimedOut /\ glmTrace[3] = Sample.NoJson

\* C7: another attempt follows a failed attempt exactly when the failure is
\* of a retryable class and fewer than 3 attempts were made; any other
\* failure is thrown at once, as that attempt's error; a well-formed answer
\* on attempt k ends the call with the validated result of attempt k.
C7_RetryIffRetryable ==
    LET n == Len(glmTrace)
    IN  n > 0 =>
          /\ \A i \in 1..(n - 1) :
               /\ ~WellFormed(glmTrace[i]) /\ RetryableClass(glmTrace[i]) /\ i < 3
          /\ glmCall.st = "running" <=>
               (~WellFormed(glmTrace[n]) /\ RetryableClass(glmTrace[n]) /\ n < 3)
          /\ (~WellFormed(glmTrace[n]) /\ ~(RetryableClass(glmTrace[n]) /\ n < 3)) =>
               /\ glmCall.st = "err"
               /\ glmCall.err = Attempt(glmTrace[n]).err
          /\ WellFormed(glmTrace[n]) =>
               /\ glmCall.st = "ok"
               /\ glmCall.value = validateResponse(glmTrace[n].content).value

C7_Witness ==
    /\ glmCall.st = "ok" /\ Len(glmTrace) = 3
    /\ glmTrace[1] = Sample.RateLimited /\ glmTrace[2] = Sample.NoSkills

\* C8: an analyze request that fails because 3 attempts all failed with
\* retryable errors is answered with the last error's code and
\* retryable = true.
C8_ExhaustedIsRetryable ==
    \A p \in Procs :
        (/\ reqs[p].op = "analyze" /\ reqs[p].pc = "done"
         /\ reqs[p].call.st = "err" /\ reqs[p].call.calls = 3
         /\ reqs[p].call.err.retryable = "true") =>
            /\ reqs[p].resp.code = reqs[p].call.err.code
            /\ reqs[p].resp.retryable = TRUE

C10_NotConfiguredIs503 ==
    \A p \in Procs :
        (/\ reqs[p].op = "analyze" /\ reqs[p].pc = "done"
         /\ reqs[p].call.err.code = "API_NOT_CONFIGURED") =>
            /\ reqs[p].resp.status = 503
            /\ reqs[p].resp.retryable = FALSE

\* the latest remote answer of the call under observation, and the JSON
\* object its text carries
LastAnswer == glmTrace[Len(glmTrace)]
HasJson(outcome) ==
    /\ outcome.kind = "choices"
    /\ \E i \in 1..Len(outcome.content) : outcome.content[i].c = "json"
TheJson(outcome) ==
    outcome.content[CHOOSE i \in 1..Len(outcome.content) :
                      outcome.content[i].c = "json"].j

\* the call turned the latest answer down as INVALID_RESPONSE, retryable:
\* it waits for a retry, or it has thrown that error
TurnedDown ==
    \/ /\ glmCall.st = "running"
       /\ Len(glmCall.waited) = Len(glmTrace)
    \/ /\ glmCall.st = "err"
       /\ glmCall.err.code = "INVALID_RESPONSE"
       /\ glmCall.err.retryable = "true"

\* C11: a remote answer whose JSON has no `skills` that is a mapping (a
\* list, a string, a number, null or nothing) or no `summary` that is a
\* string is never accepted: the attempt ends in INVALID_RESPONSE,
\* retryable, and no result is returned from it.
C11_RejectsWrongShape ==
    (Len(glmTrace) > 0 /\ HasJson(LastAnswer)) =>
        ((\/ Get(TheJson(LastAnswer), "skills").t # "obj"
          \/ Get(TheJson(LastAnswer), "summary").t # "str") =>
            (glmCall.st # "ok" /\ TurnedDown))

\* C12: every accepted result has a jobKeywords list of at least 3 entries:
\* the answer's own list when that has 3 or more, the fixed default list
\* when it is missing, no list, or shorter; and an answer with valid skills
\* and summary is accepted whatever its jobKeywords are.
C12_AtLeastThreeKeywords ==
    (Len(glmTrace) > 0 /\ HasJson(LastAnswer)) =>
        LET theirs == Get(TheJson(LastAnswer), "jobKeywords")
            ours == Get(glmCall.value, "jobKeywords")
        IN  /\ WellFormed(LastAnswer) => glmCall.st = "ok"
            /\ glmCall.st = "ok" =>
                  /\ ours.t = "arr" /\ Len(ours.v) >= 3
                  /\ IF theirs.t = "arr" /\ Len(theirs.v) >= 3
                     THEN ours = theirs
                     ELSE ours = JArr(<<JStr("Software Developer"),
                                        JStr("Software Engineer"),
                                        JStr("Full Stack Developer")>>)

C12_Witness ==
    /\ Len(glmTrace) = 2 /\ glmTrace[1] = Sample.NoJson
    /\ glmTrace[2] = Answer(Part.Skills1, JStr("summary seven"), Part.Keywords2)
    /\ glmCall.st = "ok"
    /\ Len(Get(glmCall.value, "jobKeywords").v) = 3

\* commentary: words and brace characters, no JSON object
Commentary(text) ==
    \A i \in 1..Len(text) : text[i].c \in {"word", "{", "}"}

\* C13: an answer made of commentary, one valid JSON object and more
\* commentary is accepted with that object's skills and summary, whatever
\* the commentary holds, brace characters included; an answer with no JSON
\* object at all is turned down as INVALID_RESPONSE.
C13_FirstBalancedSpan ==
    (Len(glmTrace) > 0 /\ LastAnswer.kind = "choices" /\ LastAnswer.content # <<>>) =>
        LET text == LastAnswer.content
        IN  /\ \A i \in 1..Len(text) :
                 (/\ text[i].c = "json"
                  /\ Commentary(SubSeq(text, 1, i - 1))
                  /\ Commentary(SubSeq(text, i + 1, Len(text)))
                  /\ Get(text[i].j, "skills").t = "obj"
                  /\ Get(text[i].j, "summary").t = "str"
                  /\ Get(text[i].j, "summary").v # "") =>
                     /\ glmCall.st = "ok"
                     /\ Get(glmCall.value, "skills") = Get(text[i].j, "skills")
                     /\ Get(glmCall.value, "summary") = Get(text[i].j, "summary")
            /\ (\A i \in 1..Len(text) : text[i].c = "word") =>
                 (glmCall.st # "ok" /\ TurnedDown)

\* the argument of the latest call names a document the bucket held when
\* the call was made
NamesStored(c) ==
    /\ c.arg.hex /\ c.arg.n \in Ids
    /\ c.before[c.arg.n].present

\* C14: validateFile accepts a file exactly when its size is at most
\* 5*1024*1024 bytes and its declared MIME type is one of the four allowed
\* types; exactly 5 MiB passes, 5 MiB + 1 byte fails, and any other type is
\* rejected whatever the size.
C14_ValidateIff ==
    svc.op = "validateFile" =>
        (svc.ok <=>
            /\ svc.file.size <= 5242880
            /\ svc.file.mimetype \in
                  {"application/pdf", "application/msword",
                   "application/vnd.openxmlformats-officedocument.wordprocessingml.document",
                   "text/plain"})

C14_Witness ==
    /\ svc.op = "validateFile" /\ svc.ok
    /\ svc.file.size = 5242880 /\ svc.file.mimetype = "application/msword"

\* C15: every stored document is at most 5 MiB and of an allowed type, and
\* a saveResume call on a file that fails validation rejects having
\* allocated no id and written nothing to the bucket.
C15_ValidatedBeforeStored ==
    /\ \A id \in Ids :
         files[id].present =>
            /\ files[id].size <= 5242880
            /\ files[id].mimeType \in
                  {"application/pdf", "application/msword",
                   "application/vnd.openxmlformats-officedocument.wordprocessingml.document",
                   "text/plain"}
    /\ (svc.op = "saveResume"
        /\ (svc.file.size > 5242880
            \/ svc.file.mimetype \notin
                  {"application/pdf", "application/msword",
                   "application/vnd.openxmlformats-officedocument.wordprocessingml.document",
                   "text/plain"})) =>
           /\ ~svc.ok
           /\ files = svc.before /\ nextId = svc.idBefore

C15_Witness ==
    /\ svc.op = "saveResume" /\ ~svc.ok
    /\ svc.file.mimetype = "image/png" /\ svc.file.size = 1024
    /\ \E id \in Ids : files[id].present /\ files[id].size = 5242880

\* C16: getResumeById resolves with null, and never rejects, for every id
\* that names no stored document, be it a well-formed id that is unknown or
\* a string that is no ObjectId.
C16_AbsentNeverError ==
    (svc.op = "getResumeById" /\ ~NamesStored(svc)) =>
        (svc.ok /\ svc.meta = NoFile)

\* C17: for every accepted file, getResumeFile on the id saveResume
\* returned yields the bytes handed in and getResumeById yields the
\* filename, the owner and the MIME type handed in; once deleteResume has
\* run on that id, getResumeById yields null, resumeExists yields false and
\* getResumeFile rejects with a file-not-found error.
C17_RoundTrip ==
    /\ svc.op = "saveResume" /\ svc.ok =>
          /\ ObjectId(svc.id).ok
          /\ svc.saved[ObjectId(svc.id).id].file = svc.file
          /\ getResumeFile(files, ObjectId(svc.id).id).ok
    /\ \A n \in Ids :
          (svc.arg = IdString(n) /\ svc.saved[n].stored) =>
             IF ~svc.saved[n].deleted
             THEN /\ svc.op = "getResumeFile" =>
                       (svc.ok /\ svc.body = svc.saved[n].file.body)
                  /\ svc.op = "getResumeById" =>
                       /\ svc.ok /\ svc.meta.present
                       /\ svc.meta.fileName = svc.saved[n].file.originalname
                       /\ svc.meta.userId = svc.saved[n].userId
                       /\ svc.meta.mimeType = svc.saved[n].file.mimetype
                  /\ svc.op = "resumeExists" => (svc.ok /\ svc.exists)
             ELSE /\ svc.op = "getResumeFile" =>
                       (~svc.ok /\ Includes(svc.err.msg, "FileNotFound"))
                  /\ svc.op = "getResumeById" => (svc.ok /\ svc.meta = NoFile)
                  /\ svc.op = "resumeExists" => (svc.ok /\ ~svc.exists)

C17_Witness ==
    /\ svc.op = "getResumeFile" /\ ~svc.ok
    /\ svc.arg = IdString(1) /\ svc.saved[1].deleted
    /\ svc.saved[1].file.body = Body(Text(51, 2), FALSE)

\* C18: deleteResume on an id that names no stored document, never stored
\* or already deleted, resolves without an error and leaves the bucket as
\* it was.
C18_DeleteIdempotent ==
    (svc.op = "deleteResume" /\ ~NamesStored(svc)) =>
        (svc.ok /\ files = svc.before)

\* C19: once a delete request by the owner has been answered 200, neither
\* the document nor a record of it exists, and every get, analyze or delete
\* request that looks the id up from then on is answered 404 NOT_FOUND.
C19_DeleteCascades ==
    /\ \A p \in Procs :
         (/\ reqs[p].op = "delete" /\ reqs[p].pc = "done"
          /\ reqs[p].resp.status = 200) =>
            /\ ~files[reqs[p].id].present
            /\ RecordOf(analyses, reqs[p].id) = NoRecord
    /\ \A p \in Procs :
         (/\ reqs[p].op \in {"get", "analyze", "delete"}
          /\ ~reqs[p].meta.present) =>
            /\ reqs[p].pc = "done"
            /\ reqs[p].resp = Resp(404, "NOT_FOUND", FALSE, NoData)

C20_Inv ==
    /\ Cardinality({i \in 1..Len(children) : children[i].st = "running"}) <= 1
    /\ trigger.n > 0 =>
          /\ trigger.before.isRunning <=> trigger.code = 409
          /\ trigger.code = 409 => (~trigger.spawned /\ ~trigger.threw)

C20_Step ==
    (trigger' # trigger /\ status.isRunning) =>
        /\ trigger'.code = 409
        /\ status' = status /\ children' = children

\* C20: at most one pipeline process is in flight at any time, and a
\* trigger request that finds status.isRunning true is answered 409, spawns
\* no process and leaves the status as it was.
C20_OnePipelineAtATime == []C20_Inv /\ [][C20_Step]_vars

C20_Witness ==
    /\ trigger.code = 409 /\ trigger.self = "pipelineController"
    /\ Len(children) = 2
    /\ children[1].st = "closed" /\ children[2].st = "running"

-----------------------------------------------------------------------------
(* C21 .. C24                                                               *)

\* the account of an address, as the collection holds it
AccountOf(coll, email) ==
    coll[CHOOSE i \in 1..Len(coll) : coll[i].email = email]

HasAccount(coll, email) == \E i \in 1..Len(coll) : coll[i].email = email

\* the number of requests answered so far: those received less those whose
\* save is still pending
Answered(a) == a.n - Cardinality({p \in Procs : a.reg[p].pc = "save"})

\* this step sends the response auth'.last
Answers == Answered(auth') = Answered(auth) + 1

C21_Inv ==
    LET l == auth.last
        verified == /\ l.header.present /\ l.header.scheme = "Bearer "
                    /\ l.header.token.signed /\ ~l.header.token.expired
    IN  l.op \in {"me", "upload", "get", "analyze", "delete"} =>
           IF verified
           THEN l.invoked /\ l.user = l.header.token.payload /\ l.resp.status # 401
           ELSE ~l.invoked /\ l.resp = Resp(401, "UNAUTHORIZED", FALSE, NoData)

C21_Step ==
    (/\ Answers
     /\ auth'.last.op \in {"me", "upload", "get", "analyze", "delete"}
     /\ ~auth'.last.invoked) =>
        /\ accounts' = accounts /\ auth'.reg = auth.reg /\ auth'.told = auth.told
        /\ UNCHANGED <<files, nextId, analyses, profile, reqs, made, status, children>>

C22_Inv ==
    auth.last.token.signed => (auth.last.op = "login" /\ auth.last.resp.status = 200)

C22_Step ==
    (Answers /\ auth'.last.op = "login") =>
        LET l == auth'.last
            exists == HasAccount(accounts, l.email)
            u == AccountOf(accounts, l.email)
            matches == auth.told[l.email].password = l.arg
        IN  /\ l.resp.status = 200 <=> (exists /\ u.emailVerified /\ matches)
            /\ l.resp.status = 200 =>
                  /\ l.token.signed /\ ~l.token.expired
                  /\ l.token.payload.email = l.email
                  /\ accounts[l.token.payload.userId] = u
            /\ l.resp.status # 200 =>
                  /\ l.resp.status = 401 /\ ~l.token.signed
                  /\ l.resp.code = (IF exists /\ ~u.emailVerified
                                    THEN "EMAIL_NOT_VERIFIED"
                                    ELSE "INVALID_CREDENTIALS")
            /\ accounts' = accounts

C23_Inv ==
    \A i \in 1..Len(accounts) :
        accounts[i].emailVerified => accounts[i].verificationCode = ""

C23_Step ==
    /\ \A i \in 1..Len(accounts) :
          (~accounts[i].emailVerified /\ accounts'[i].emailVerified) =>
             /\ auth'.last.op = "verify" /\ auth'.last.resp.status = 200
             /\ auth'.last.email = accounts[i].email
             /\ auth'.last.arg = accounts[i].verificationCode
             /\ auth'.last.arg = auth.told[accounts[i].email].code
             /\ accounts[i].verificationCodeExpires >= time
             /\ accounts'[i].verificationCode = ""
    /\ (Answers /\ auth'.last.op = "verify") =>
          LET l == auth'.last
              exists == HasAccount(accounts, l.email)
              u == AccountOf(accounts, l.email)
              wrong == u.verificationCode = "" \/ u.verificationCode # l.arg
          IN  /\ ~exists => l.resp = Resp(400, "USER_NOT_FOUND", FALSE, NoData)
              /\ (exists /\ wrong) => l.resp = Resp(400, "INVALID_CODE", FALSE, NoData)
              /\ (exists /\ ~wrong /\ u.verificationCodeExpires < time) =>
                    l.resp = Resp(400, "CODE_EXPIRED", FALSE, NoData)
              /\ (exists /\ ~wrong /\ u.verificationCodeExpires >= time) =>
                    l.resp.status = 200
              /\ l.resp.status # 200 => accounts' = accounts
              /\ (exists /\ u.emailVerified) => l.resp.status # 200

C24_Inv ==
    \A i, j \in 1..Len(accounts) : accounts[i].email = accounts[j].email => i = j

C24_Step ==
    /\ \A e \in Emails :
          HasAccount(accounts, e) =>
             /\ \A p \in Procs :
                   (auth'.reg[p] # auth.reg[p] /\ auth'.reg[p].email = e) =>
                       auth'.reg[p].pc = "idle"
             /\ (auth'.n = auth.n + 1 /\ Answers /\ auth'.last.op = "register"
                                               /\ auth'.last.email = e) =>
                   auth'.last.resp = Resp(400, "EMAIL_ALREADY_EXISTS", FALSE, NoData)
    /\ (Answers /\ auth'.last.op = "register") =>
          \A i \in 1..Len(accounts) : accounts'[i] = accounts[i]

\* C24: a register request for an email that already has an account is
\* answered 400 EMAIL_ALREADY_EXISTS, no register request changes an
\* existing account, and in every reachable state, concurrent register
\* requests for one email included, at most one account exists per email.
C24_OneAccountPerEmail == []C24_Inv /\ [][C24_Step]_vars

C24_Witness ==
    /\ auth.last.op = "register" /\ auth.last.resp.code = "EMAIL_ALREADY_EXISTS"
    /\ Len(accounts) = 1 /\ accounts[1].email = auth.last.email
    /\ ~comparePassword(accounts[1], auth.last.arg)
    /\ auth.n = 3

-----------------------------------------------------------------------------
(* C25 .. C30                                                               *)

\* C26: the delays waited by one analyzeResume call are 1000 ms before
\* attempt 2 and 2000 ms before attempt 3 and nothing else: one delay after
\* each failed attempt that is followed by another attempt, none before
\* attempt 1, and none after a success, after a non-retryable failure or
\* after the 3rd failed attempt.
C26_BackoffSchedule ==
    LET n == Len(glmTrace)
        w == glmCall.waited
    IN  /\ Len(w) = (IF glmCall.st = "running" THEN n
                     ELSE IF n > 0 THEN n - 1 ELSE 0)
        /\ Len(w) <= 2
        /\ Len(w) >= 1 => w[1] = 1000
        /\ Len(w) >= 2 => w[2] = 2000
        /\ glmCall.st = "running" => glmCall.attempt = Len(w) + 1

C26_Witness ==
    /\ glmCall.st = "err" /\ Len(glmTrace) = 3
    /\ glmCall.waited = <<1000, 2000>>

\* C27: once no analyze or delete request is in flight, every record of the
\* collection refers to a document that is still in the file store: a
\* deleted document has no record.
C27_NoOrphanRecords ==
    (\A p \in Procs : reqs[p].pc \in {"idle", "done"}) =>
        \A i \in 1..Len(analyses) : files[analyses[i].resumeId].present

\* C28: an analyze request by the owner whose byte fetch, text extraction
\* and remote analysis all succeeded (here with an answer that the record
\* schema accepts) is answered 200 with skills, summary and jobKeywords,
\* whatever other analyze requests for the document do meanwhile.
C28_EverySuccessAnswers200 ==
    \A p \in Procs :
        (/\ reqs[p].op = "analyze" /\ reqs[p].pc = "done"
         /\ reqs[p].fetched /\ reqs[p].extracted
         /\ reqs[p].call.st = "ok" /\ reqs[p].last \in {Sample.Good1, Sample.Good2}) =>
            /\ reqs[p].resp.status = 200
            /\ reqs[p].resp.data.has
            /\ reqs[p].resp.data.summary = Get(reqs[p].call.value, "summary")
            /\ reqs[p].resp.data.jobKeywords = Get(reqs[p].call.value, "jobKeywords")

\* C29: a trigger request accepted through the POST /api/pipeline/trigger
\* route (the handler called with `this` undefined) has started a
\* background process, and status.isRunning is true only while a pipeline
\* process is in flight: the handlers of that process are the only code that
\* sets isRunning back to false, so a state with isRunning true and no
\* process in flight is one in which isRunning stays true forever and every
\* later trigger is answered 409.
C29_PipelineLiveness ==
    /\ (trigger.code = 200 /\ trigger.self = "undefined") => trigger.spawned
    /\ status.isRunning =>
          \E i \in 1..Len(children) : children[i].st \in {"running", "failing"}

\* C25: for every requested page and limit that is absent or an integer,
\* both job listings answer with page = max(1, page) (1 when absent), a
\* limit within 1..100 (10 when absent, 100 when above 100, the requested
\* one when it is within the range), at most `limit` items in data, and
\* totalPages = ceil(total / limit).
C25_Pagination ==
    LET page == parseInt(listing.raw.page)
        limit == parseInt(listing.raw.limit)
        b == listing.body
    IN  (/\ listing.op # "none"
         /\ listing.raw.page \notin {"abc", "2.7"}
         /\ listing.raw.limit \notin {"abc", "2.7"}) =>
            /\ b.page = (IF page.k = "num" /\ page.n >= 1 THEN page.n ELSE 1)
            /\ b.limit \in 1..100
            /\ limit.k = "undef" => b.limit = 10
            /\ (limit.k = "num" /\ limit.n > 100) => b.limit = 100
            /\ (limit.k = "num" /\ limit.n \in 1..100) => b.limit = limit.n
            /\ Len(b.data) <= b.limit
            /\ b.totalPages * b.limit >= b.total
            /\ (b.totalPages - 1) * b.limit < b.total

C25_Witness ==
    /\ listing.op = "jobs"
    /\ listing.raw.page = "2" /\ listing.raw.limit = "2"
    /\ Len(listing.body.data) = 2
    /\ listing.body.total = 5 /\ listing.body.totalPages = 3

\* the jobs of the filtered collection that satisfy every supplied filter
Satisfying(raw) ==
    {d \in filtered_jobs :
        /\ d.passed
        /\ raw.q # "" =>
              raw.q \in (d.job_title \cup d.job_description \cup d.company_name_normalized)
        /\ raw.location # "" => raw.location \in (d.city \cup d.state \cup d.job_location)
        /\ raw.employmentType # "" => d.employment_type = raw.employmentType
        /\ raw.workArrangement # "" => d.work_arrangement = raw.workArrangement
        /\ raw.platform # "" => d.platform = raw.platform
        /\ raw.minScore # "" => d.match_score >= parseInt(raw.minScore).n
        /\ raw.date # "" => d.date = raw.date}

\* C30: the filters of the filtered job listing are conjunctive: every
\* returned job satisfies all the supplied filters at once (keyword and
\* location together, when both are supplied) and has analysis.passed true,
\* and total counts exactly the jobs that satisfy all of them.
C30_FiltersConjunctive ==
    listing.op = "filtered" =>
        /\ \A i \in 1..Len(listing.body.data) :
              listing.body.data[i] \in Satisfying(listing.raw)
        /\ listing.body.total = Cardinality(Satisfying(listing.raw))

====
